---- MODULE Spec2Model ----
(***************************************************************************)
(* Fixed-width import generators of the Monarch import page:               *)
(*   MonarchImporter      (job import,      src/MonarchImporter.js)        *)
(*   WIPImporter          (WIP import,      src/unnamed/part_004)          *)
(*   CustomerListImporter (customer import, src/unnamed/part_003)          *)
(*   CustomerApiService   (customer lookup, src/unnamed/part_005)          *)
(* A JavaScript string is a sequence of one-character strings.             *)
(***************************************************************************)
EXTENDS Integers, Sequences, FiniteSets, TLC

(* ------------------------------ bounds -------------------------------- *)
\* most order lines in an order CSV
MaxOrders == 3
\* most data rows in a WIP sheet
MaxWipRows == 2
\* most customer rows in a customer-list CSV
MaxCustRows == 2

(* --------------------------- string literals -------------------------- *)
S_Production == <<"P","r","o","d","u","c","t","i","o","n">>
S_113 == <<"1","1","3">>
S_Each == <<"E","a","c","h">>
S_0 == <<"0">>
S_1 == <<"1">>
S_3 == <<"3">>
S_000 == <<"0",".","0","0">>
S_Blank4 == <<" "," "," "," ">>
S_NaN == <<"N","a","N">>
S_NotFound == <<"C","u","s","t","o","m","e","r"," ","n","o","t"," ","f","o","u","n","d"," ","i","n"," ","M","o","n","a","r","c","h"," ","d","a","t","a","b","a","s","e">>
S_ApiErrorPrefix == <<"A","P","I"," ","E","r","r","o","r",":"," ">>
S_shipping == <<"s","h","i","p","p","i","n","g">>
S_Colon == <<" ",":"," ">>
S_DashSample == <<" ","-"," ","S","a","m","p","l","e">>
S_Dash == <<" ","-"," ">>

(* ------------------- String.prototype and Number helpers -------------- *)
Min(a, b) == IF a < b THEN a ELSE b

Max(a, b) == IF a > b THEN a ELSE b

\* s.substring(0, n)
Substring0(s, n) == SubSeq(s, 1, Min(n, Len(s)))

\* c repeated n times
Repeat(c, n) == [i \in 1..n |-> c]

\* s.padEnd(n, c)
PadEnd(s, n, c) == s \o Repeat(c, Max(0, n - Len(s)))

\* s.padStart(n, c)
PadStart(s, n, c) == Repeat(c, Max(0, n - Len(s))) \o s

\* pat occurs in s at 1-based index i
MatchAt(s, pat, i) ==
  /\ i >= 1
  /\ i + Len(pat) - 1 <= Len(s)
  /\ \A k \in 1..Len(pat) : s[i + k - 1] = pat[k]

\* s.indexOf(pat) + 1 : 1-based index of the first occurrence, 0 when none
IndexOf(s, pat) ==
  IF \E i \in 1..Len(s) : MatchAt(s, pat, i)
  THEN CHOOSE i \in 1..Len(s) :
         MatchAt(s, pat, i) /\ \A j \in 1..(i - 1) : ~MatchAt(s, pat, j)
  ELSE 0

\* s.includes(pat)
Includes(s, pat) == IndexOf(s, pat) # 0

\* s.split(pat)[0]
SplitHead(s, pat) ==
  IF Includes(s, pat) THEN SubSeq(s, 1, IndexOf(s, pat) - 1) ELSE s

\* what follows the first occurrence of pat in s
AfterFirst(s, pat) == SubSeq(s, IndexOf(s, pat) + Len(pat), Len(s))

\* s.split(pat)[1], for s that includes pat: the piece between the first and
\* the second occurrence of pat
SplitSecond(s, pat) == SplitHead(AfterFirst(s, pat), pat)

RECURSIVE TrimStart(_)
TrimStart(s) ==
  IF s # <<>> /\ Head(s) = " " THEN TrimStart(Tail(s)) ELSE s

RECURSIVE TrimEnd(_)
TrimEnd(s) ==
  IF s # <<>> /\ s[Len(s)] = " " THEN TrimEnd(SubSeq(s, 1, Len(s) - 1)) ELSE s

\* s.trim()
Trim(s) == TrimEnd(TrimStart(s))

UpperCase == <<"A","B","C","D","E","F","G","H","I","J","K","L","M",
               "N","O","P","Q","R","S","T","U","V","W","X","Y","Z">>

LowerCase == <<"a","b","c","d","e","f","g","h","i","j","k","l","m",
               "n","o","p","q","r","s","t","u","v","w","x","y","z">>

LowerChar(c) ==
  IF \E i \in 1..26 : UpperCase[i] = c
  THEN LowerCase[CHOOSE i \in 1..26 : UpperCase[i] = c]
  ELSE c

\* s.toLowerCase() (text ranges over the one value of s, so that s is
\* computed once)
ToLowerCase(s) ==
  CHOOSE lower \in { [i \in 1..Len(text) |-> LowerChar(text[i])] : text \in {s} } : TRUE

Digits == <<"0","1","2","3","4","5","6","7","8","9">>

IsDigit(c) == \E i \in 1..10 : Digits[i] = c

DigitVal(c) == (CHOOSE i \in 1..10 : Digits[i] = c) - 1

AllDigits(s) == \A i \in 1..Len(s) : IsDigit(s[i])

RECURSIVE StrToNat(_)
StrToNat(s) ==
  CHOOSE n \in { IF text = <<>> THEN 0
                 ELSE 10 * StrToNat(SubSeq(text, 1, Len(text) - 1))
                      + DigitVal(text[Len(text)]) : text \in {s} } : TRUE

RECURSIVE NatToStr(_)
\* n.toString() for a non-negative integer
NatToStr(n) ==
  IF n < 10 THEN <<Digits[n + 1]>>
  ELSE NatToStr(n \div 10) \o <<Digits[(n % 10) + 1]>>

\* length of the longest prefix of s made of digits
RECURSIVE DigitPrefixLen(_)
DigitPrefixLen(s) ==
  IF s # <<>> /\ IsDigit(Head(s)) THEN 1 + DigitPrefixLen(Tail(s)) ELSE 0

\* parseFloat(s) for unsigned decimal text: the longest prefix
\* digits[.digits]; NaN when that prefix holds no digit. The value is
\* int + 0.frac, kept as its digits.
ParseFloat(s) ==
  CHOOSE x \in
    { LET rest == SubSeq(t, n + 1, Len(t))
          m == IF rest # <<>> /\ Head(rest) = "."
               THEN DigitPrefixLen(Tail(rest)) ELSE 0
      IN IF n = 0 /\ m = 0
         THEN [nan |-> TRUE, int |-> 0, frac |-> <<>>]
         ELSE [nan |-> FALSE, int |-> StrToNat(SubSeq(t, 1, n)),
               frac |-> SubSeq(rest, 2, m + 1)] :
      <<t, n>> \in { <<text, DigitPrefixLen(text)>> : text \in {TrimStart(s)} } } : TRUE

FracDigit(x, k) == IF k <= Len(x.frac) THEN DigitVal(x.frac[k]) ELSE 0

\* x.toFixed(0).toString()
ToFixed0(x) ==
  IF x.nan THEN S_NaN
  ELSE NatToStr(x.int + (IF FracDigit(x, 1) >= 5 THEN 1 ELSE 0))

\* x.toFixed(2).toString()
ToFixed2(x) ==
  IF x.nan THEN S_NaN
  ELSE CHOOSE text \in
         { NatToStr(cents \div 100) \o <<".">>
           \o <<Digits[((cents \div 10) % 10) + 1], Digits[(cents % 10) + 1]>> :
           cents \in { x.int * 100 + FracDigit(x, 1) * 10 + FracDigit(x, 2)
                       + (IF FracDigit(x, 3) >= 5 THEN 1 ELSE 0) } } : TRUE

DaysInMonth == <<31, 28, 31, 30, 31, 30, 31, 31, 30, 31, 30, 31>>

\* new Date(s) for the texts of the model: mm/dd/yyyy is a calendar date,
\* anything else is an Invalid Date
ParseDate(s) ==
  IF /\ Len(s) = 10
     /\ s[3] = "/" /\ s[6] = "/"
     /\ AllDigits(SubSeq(s, 1, 2)) /\ AllDigits(SubSeq(s, 4, 5))
     /\ AllDigits(SubSeq(s, 7, 10))
     /\ StrToNat(SubSeq(s, 1, 2)) \in 1..12
     /\ StrToNat(SubSeq(s, 4, 5)) \in 1..DaysInMonth[StrToNat(SubSeq(s, 1, 2))]
  THEN [valid |-> TRUE, month |-> StrToNat(SubSeq(s, 1, 2)),
        day |-> StrToNat(SubSeq(s, 4, 5)), year |-> StrToNat(SubSeq(s, 7, 10))]
  ELSE [valid |-> FALSE, month |-> 0, day |-> 0, year |-> 0]

(* ------------------------------ inputs -------------------------------- *)
\* A row of the order CSV as PapaParse yields it (header: true, every value
\* trimmed): the columns the job import reads. A column the file lacks reads
\* as undefined, which every use replaces by '' (|| ''), as an empty value.
OrderRow(inv, cust, prod, po, due, ship, qty, price, amt) ==
  [inv |-> inv, cust |-> cust, prod |-> prod, po |-> po, due |-> due,
   ship |-> ship, qty |-> qty, price |-> price, amt |-> amt]

OrderLines ==
  { OrderRow(<<"0","0","1","2","3">>, <<"A","c","m","e"," ","C","o">>, <<"B","o","o","k","l","e","t"," ","-"," ","6",".","5","i","n"," ",":"," ","m","a","i","l","i","n","g"," ","-"," ","S","a","m","p","l","e">>, <<"P","O","-","7">>,
             <<"0","3","/","1","5","/","2","0","2","5">>, <<"0","4","/","0","1","/","2","0","2","5">>, <<"2">>, <<"1","0",".","5">>, <<"2","1">>),
    OrderRow(<<"0","0","1","2","3">>, <<"A","c","m","e">>, <<"S","h","i","p","p","i","n","g">>, <<>>, <<>>, <<>>, <<>>, <<>>, <<"4",".","2","5","6">>),
    OrderRow(<<"5","2","0">>, <<"U","n","k","n","o","w","n"," ","C","o","r","p">>, <<"C","a","r","d","s"," ",":"," ","r","e","d"," ","-"," ","b","l","u","e">>, <<"A",",","\"","B","\"">>, <<"T","B","D">>, <<>>,
             <<"x">>, <<"3">>, <<"1",",","2","5","0",".","0","0">>),
    OrderRow(<<>>, <<>>, <<>>, <<>>, <<>>, <<>>, <<>>, <<>>, <<>>) }

\* A row of the customer CSV: the columns the job import reads
CustomerRows ==
  << [id |-> <<"A","c","m","e"," ","C","o">>, first |-> <<"A","l">>, last |-> <<"L","e","e">>] >>

Absent == [file |-> "absent"]

Unreadable == [file |-> "unreadable"]

CsvFile(rows) == [file |-> "csv", rows |-> rows]

SeqsUpTo(S, n) == UNION { [1..k -> S] : k \in 0..n }

\* two order lines whose invoice numbers, of 9 characters, differ in the last
LongInvoiceLines ==
  << OrderRow(<<"I","N","V","-","1","0","0","0","1">>, <<"A","c","m","e"," ","C","o">>, <<"C","a","r","d","s">>, <<>>, <<>>, <<>>, <<"1">>, <<"5">>, <<"5">>),
     OrderRow(<<"I","N","V","-","1","0","0","0","2">>, <<"A","c","m","e"," ","C","o">>, <<"C","a","r","d","s">>, <<>>, <<>>, <<>>, <<"1">>, <<"5">>, <<"5">>) >>

\* the files object handed to processFiles
JobFiles ==
  { [customer |-> c, order |-> o] :
      c \in {Absent, CsvFile(CustomerRows)},
      o \in {Absent, Unreadable, CsvFile(LongInvoiceLines)}
            \cup { CsvFile(r) : r \in SeqsUpTo(OrderLines, MaxOrders) } }

\* What a call of searchCustomers can give: a thrown error (transport
\* failure or !response.ok), or the parsed JSON body: an array of customers
\* (their customer_id in string form) or something that is no array.
ApiError(msg) == [kind |-> "error", message |-> msg, ids |-> <<>>]

ApiArray(ids) == [kind |-> "array", message |-> <<>>, ids |-> ids]

ApiOther == [kind |-> "other", message |-> <<>>, ids |-> <<>>]

Responses ==
  { ApiError(<<"A","P","I"," ","e","r","r","o","r",":"," ","5","0","0">>), ApiArray(<<>>), ApiOther,
    ApiArray(<< <<"4","5","2","1">> >>), ApiArray(<< <<"L","O","N","G","C","U","S","T","O","M","E","R">>, <<"X">> >>) }

\* history: how a call of searchCustomers settled, as the importers see it
Settled(resp) ==
  IF resp.kind = "error" THEN "error"
  ELSE IF resp.kind = "array" /\ Len(resp.ids) > 0 THEN "found"
  ELSE "none"

(* ------------------------------- state -------------------------------- *)
VARIABLES
  kind,            \* the importer the page runs: "job", "wip" or "customer"
  pc,              \* where the run is
  files,           \* the argument of processFiles / processFile
  customerData,    \* MonarchImporter.customerData
  orderData,       \* MonarchImporter.orderData
  rejectedOrders,  \* this.rejectedOrders of the importer that runs
  ordersByInvoice, \* mapOrdersToMonarch: the groups, in Object.entries order
  gi,              \* index of the group (WIP: the row) the loop is at
  mainJobs,        \* mapOrdersToMonarch: mainJobs (WIP: jobs)
  subJobs,         \* mapOrdersToMonarch: subJobs
  lookups,         \* history: the searchCustomers calls made, in order
  downloads,       \* the files handed to downloadTextFile, in order
  localStorage,    \* the browser's localStorage
  result,          \* what the run's promise resolved to
  wipData,         \* WIPImporter.wipData
  filteredData,    \* WIPImporter.filteredData
  skippedRows,     \* WIPImporter.skippedRows
  customerListData, \* CustomerListImporter.customerListData
  userListData,    \* CustomerListImporter.userListData
  zip,             \* parseZipFile: the entries still being read, the flags
  other,           \* the other run on the same importer, suspended at an await
  rawDescription,  \* the argument of cleanProductDescription
  cleaned          \* what cleanProductDescription returned

vars == <<kind, pc, files, customerData, orderData, rejectedOrders,
          ordersByInvoice, gi, mainJobs, subJobs, lookups, downloads,
          localStorage, result, wipData, filteredData, skippedRows,
          customerListData, userListData, zip, other, rawDescription, cleaned>>

\* what a single run of an importer never touches
aside == <<other, rawDescription, cleaned>>

wipState == <<wipData, filteredData, skippedRows>>

custState == <<customerListData, userListData, zip>>

jobState == <<customerData, orderData, ordersByInvoice, subJobs>>

NoResult == [pending |-> TRUE]

\* the locals of a run that has not started
NoRun ==
  [pc |-> "idle", files |-> Absent, orderData |-> <<>>, ordersByInvoice |-> <<>>,
   gi |-> 1, mainJobs |-> <<>>, subJobs |-> <<>>, lookups |-> <<>>, result |-> NoResult]

NotCleaned == [done |-> FALSE, text |-> <<>>]

\* the locals of parseZipFile before it runs
NoZip == [pending |-> {}, customerFileFound |-> FALSE, userFileFound |-> FALSE]

\* localStorage.setItem(key, value)
SetItem(store, key, value) ==
  [k \in (DOMAIN store) \cup {key} |-> IF k = key THEN value ELSE store[k]]

(* ----------------------------- MonarchImporter ------------------------ *)
\* the object keys JavaScript treats as array indices: canonical decimal
\* numerals below 2^32 - 1
IsArrayIndex(key) ==
  /\ key # <<>>
  /\ AllDigits(key)
  /\ (Len(key) = 1 \/ key[1] # "0")
  /\ \/ Len(key) <= 9
     \/ /\ Len(key) = 10
        /\ \/ StrToNat(SubSeq(key, 1, 5)) < 42949
           \/ /\ StrToNat(SubSeq(key, 1, 5)) = 42949
              /\ StrToNat(SubSeq(key, 6, 10)) <= 67294

\* a < b for two array-index keys
IndexLess(a, b) ==
  \/ Len(a) < Len(b)
  \/ /\ Len(a) = Len(b)
     /\ \E i \in 1..Len(a) :
          /\ DigitVal(a[i]) < DigitVal(b[i])
          /\ \A j \in 1..(i - 1) : a[j] = b[j]

\* where a new key lands in Object.entries: array-index keys come first, in
\* ascending numeric order; every other key follows in insertion order
KeyPosition(groups, key) ==
  IF IsArrayIndex(key)
  THEN 1 + Cardinality({ g \in 1..Len(groups) :
                           /\ IsArrayIndex(groups[g].invoiceNumber)
                           /\ IndexLess(groups[g].invoiceNumber, key) })
  ELSE Len(groups) + 1

InsertAt(seq, k, e) == SubSeq(seq, 1, k - 1) \o <<e>> \o SubSeq(seq, k, Len(seq))

\* ordersByInvoice[invoiceNumber].push(order), the key created when new;
\* an order is kept as its index in orderData
PushOrder(groups, key, i) ==
  IF \E g \in 1..Len(groups) : groups[g].invoiceNumber = key
  THEN [g \in 1..Len(groups) |->
          IF groups[g].invoiceNumber = key
          THEN [groups[g] EXCEPT !.orders = Append(@, i)]
          ELSE groups[g]]
  ELSE InsertAt(groups, KeyPosition(groups, key),
                [invoiceNumber |-> key, orders |-> <<i>>])

RECURSIVE GroupOrders(_, _, _)
\* this.orderData.forEach(order => ...): group the orders by invoice number
GroupOrders(orders, i, groups) ==
  IF i > Len(orders) THEN groups
  ELSE GroupOrders(orders, i + 1, PushOrder(groups, orders[i].inv, i))

RECURSIVE LeadingZeros(_)
LeadingZeros(s) ==
  IF s # <<>> /\ Head(s) = "0" THEN 1 + LeadingZeros(Tail(s)) ELSE 0

\* the job id of an invoice number
JobId(invoiceNumber) ==
  LET padded == Substring0(PadEnd(invoiceNumber, 8, " "), 8)
      z == LeadingZeros(padded)
  IN Repeat(" ", z) \o SubSeq(padded, z + 1, Len(padded))

\* MonarchImporter.formatDate(new Date(text))
FormatDate(text) ==
  CHOOSE formatted \in
    { IF d.valid
      THEN PadStart(NatToStr(d.month), 2, "0") \o <<"/">>
           \o PadStart(NatToStr(d.day), 2, "0") \o <<"/">> \o NatToStr(d.year)
      ELSE S_NaN \o <<"/">> \o S_NaN \o <<"/">> \o S_NaN :
      d \in { ParseDate(text) } } : TRUE

\* value ? formatDate(new Date(value)) : ''
DateOrEmpty(text) == IF text # <<>> THEN FormatDate(text) ELSE <<>>

cleanProductDescription(description) ==
  IF description = <<>> THEN <<>>
  ELSE IF ToLowerCase(Trim(description)) = S_shipping THEN description
  ELSE IF Includes(description, S_Colon)
  THEN LET prefix == Trim(SplitHead(description, S_Colon))
           part1 == SplitSecond(description, S_Colon)
       IN IF Includes(part1, S_DashSample)
          THEN prefix \o S_Colon \o Trim(SplitHead(part1, S_DashSample))
          ELSE IF Includes(part1, S_Dash)
          THEN prefix \o S_Colon \o Trim(SplitHead(part1, S_Dash))
          ELSE description
  ELSE description

\* the contact name of the customer record whose 'Customer ID' is the
\* order's customer name
ContactName(customers, customerName) ==
  IF \E c \in 1..Len(customers) : customers[c].id = customerName
  THEN LET c == CHOOSE c \in 1..Len(customers) :
                  /\ customers[c].id = customerName
                  /\ \A b \in 1..(c - 1) : customers[b].id # customerName
       IN Trim(customers[c].first \o <<" ">> \o customers[c].last)
  ELSE <<>>

\* a field definition whose width is one more than the layout's
FieldOneWider(name, value, pos, len) ==
  [name |-> name, value |-> value, pos |-> pos, len |-> len + 1]

Field(name, value, pos, len) ==
  [name |-> name, value |-> value, pos |-> pos, len |-> len]

\* value ? parseFloat(value).toFixed(0).toString() : '0'
Quantity(text) == IF text # <<>> THEN ToFixed0(ParseFloat(text)) ELSE S_0

\* value ? parseFloat(value).toFixed(2).toString() : '0.00'
Money(text) == IF text # <<>> THEN ToFixed2(ParseFloat(text)) ELSE S_000

\* the record pushed to mainJobs, its fields in insertion order
MainJob(jobId, firstOrder, monarchCustomerId, poNumber, dueDate, shipDate, contactName) ==
  LET productName == cleanProductDescription(firstOrder.prod)
  IN << Field("job_id", jobId, 1, 8),
        Field("sub_job_id", S_Blank4, 9, 4),
        Field("job_description", Substring0(productName, 254), 13, 254),
        Field("job_type", S_Production, 267, 19),
        Field("item_id", <<>>, 286, 15),
        Field("cust_ordered_by", monarchCustomerId, 301, 8),
        Field("cust_billed_to", monarchCustomerId, 309, 8),
        Field("sales_class_id", S_113, 317, 8),
        Field("po_number", Substring0(poNumber, 20), 325, 20),
        Field("date_promised", dueDate, 345, 10),
        Field("ship_date", shipDate, 355, 10),
        Field("qty_ordered", Quantity(firstOrder.qty), 365, 11),
        Field("priority", <<>>, 376, 10),
        Field("contact_name", Substring0(contactName, 30), 386, 30),
        Field("expense_code", <<>>, 416, 24),
        Field("shop_floor_active", S_0, 440, 1),
        Field("form_number", <<>>, 441, 20),
        Field("quotation_amount", Money(firstOrder.amt), 461, 15),
        Field("unit_of_measure_id", S_Each, 476, 4),
        Field("unit_price", Money(firstOrder.price), 480, 16),
        Field("job_title", Substring0(productName, 50), 496, 50),
        Field("forest_type_id", <<>>, 546, 15) >>

\* sub-jobs numbered from 0, the index of the loop taken one too low
SubJobIdFromZero(i) == Substring0(PadEnd(NatToStr(i - 1), 4, " "), 4)

\* i.toString().padEnd(4, ' ').substring(0, 4)
SubJobId(i) == Substring0(PadEnd(NatToStr(i), 4, " "), 4)

\* the record pushed to subJobs for orders[i] (i counted from 0)
SubJob(jobId, i, order, monarchCustomerId, poNumber, dueDate, shipDate, contactName) ==
  LET orderProductName == cleanProductDescription(order.prod)
  IN << Field("job_id", jobId, 1, 8),
        Field("sub_job_id", SubJobId(i), 9, 4),
        Field("job_description", Substring0(orderProductName, 254), 13, 254),
        Field("job_type", S_Production, 267, 19),
        Field("item_id", <<>>, 286, 15),
        Field("cust_ordered_by", monarchCustomerId, 301, 8),
        Field("cust_billed_to", monarchCustomerId, 309, 8),
        Field("sales_class_id", S_113, 317, 8),
        Field("po_number", Substring0(poNumber, 20), 325, 20),
        Field("date_promised", dueDate, 345, 10),
        Field("ship_date", shipDate, 355, 10),
        Field("qty_ordered", Quantity(order.qty), 365, 11),
        Field("priority", <<>>, 376, 10),
        Field("contact_name", Substring0(contactName, 30), 386, 30),
        Field("expense_code", <<>>, 416, 24),
        Field("shop_floor_active", S_0, 440, 1),
        Field("form_number", <<>>, 441, 20),
        Field("quotation_amount", Money(order.amt), 461, 15),
        Field("unit_of_measure_id", S_Each, 476, 4),
        Field("unit_price", Money(order.price), 480, 16),
        Field("job_title", Substring0(orderProductName, 50), 496, 50),
        Field("forest_type_id", <<>>, 546, 15) >>

\* length of the line buffer of the job and WIP encoders:
\* new Array(560 + 1).join(' ').split('')
JobLineLength == 560

\* pos taken as a 0-based index: the field lands one column to the right
WriteFieldOneBased(line, value, pos, len) ==
  LET n == Max(0, Min(Min(len, Len(value)), Len(line) - pos))
  IN SubSeq(line, 1, Min(pos, Len(line))) \o SubSeq(value, 1, n)
     \o SubSeq(line, pos + 1 + n, Len(line))

\* the inner loop of the encoders: value[i] goes to line[pos + i] for
\* i < min(len, value.length), when pos + i is inside the line
WriteField(line, value, pos, len) ==
  LET n == Max(0, Min(Min(len, Len(value)), Len(line) - pos + 1))
  IN SubSeq(line, 1, Min(pos - 1, Len(line))) \o SubSeq(value, 1, n)
     \o SubSeq(line, pos + n, Len(line))

RECURSIVE PlaceFieldsButZero(_, _, _)
\* an encoder that takes the text '0' for falsy as well
PlaceFieldsButZero(line, fields, k) ==
  IF k > Len(fields) THEN line
  ELSE CHOOSE placed \in
         { PlaceFieldsButZero(written, fields, k + 1) :
             written \in { IF fields[k].value # <<>> /\ fields[k].value # S_0
                           THEN WriteField(line, fields[k].value, fields[k].pos,
                                           fields[k].len)
                           ELSE line } } : TRUE

RECURSIVE PlaceFields(_, _, _)
\* for (const [field, def] of Object.entries(job)) if (def.value) ...
\* (written ranges over the one line the k-th field leaves, so that the line
\* is computed once per field)
PlaceFields(line, fields, k) ==
  IF k > Len(fields) THEN line
  ELSE CHOOSE placed \in
         { PlaceFields(written, fields, k + 1) :
             written \in { IF fields[k].value # <<>>
                           THEN WriteField(line, fields[k].value, fields[k].pos,
                                           fields[k].len)
                           ELSE line } } : TRUE

\* a buffer of 560 + 1 blanks
JobLineOneMore(fields) == PlaceFields(Repeat(" ", JobLineLength + 1), fields, 1)

\* one line of generateFixedWidthFile
JobLine(fields) == PlaceFields(Repeat(" ", JobLineLength), fields, 1)

RECURSIVE generateFixedWidthFile(_)
\* result += line.join('') + '\n' for every job
generateFixedWidthFile(jobs) ==
  IF jobs = <<>> THEN <<>>
  ELSE JobLine(Head(jobs).fields) \o <<"\n">> \o generateFixedWidthFile(Tail(jobs))

\* the object pushed to this.rejectedOrders
RejectedOrder(invoiceNumber, firstOrder, poNumber, dueDate, reason) ==
  [invoiceNumber |-> invoiceNumber, customerName |-> firstOrder.cust,
   productName |-> firstOrder.prod, poNumber |-> poNumber, dueDate |-> dueDate,
   amount |-> firstOrder.amt, reason |-> reason]

\* s.replace(/"/g, '""')
RECURSIVE DoubleQuotes(_)
DoubleQuotes(s) ==
  IF Len(s) = 0 THEN <<>>
  ELSE (IF Head(s) = "\"" THEN <<"\"", "\"">> ELSE <<Head(s)>>) \o DoubleQuotes(Tail(s))

\* `"${s.replace(/"/g, '""')}"`
Escaped(s) == <<"\"">> \o DoubleQuotes(s) \o <<"\"">>

\* array.join(sep)
RECURSIVE Join(_, _)
Join(parts, sep) ==
  IF Len(parts) = 0 THEN <<>>
  ELSE IF Len(parts) = 1 THEN Head(parts)
  ELSE Head(parts) \o sep \o Join(Tail(parts), sep)

RejectionHeaders ==
  << <<"I","n","v","o","i","c","e"," ","N","u","m","b","e","r">>, <<"C","u","s","t","o","m","e","r"," ","N","a","m","e">>, <<"P","r","o","d","u","c","t">>, <<"P","O"," ","N","u","m","b","e","r">>,
     <<"D","u","e"," ","D","a","t","e">>, <<"A","m","o","u","n","t">>, <<"R","e","j","e","c","t","i","o","n"," ","R","e","a","s","o","n">> >>

\* the row of one rejected order: four fields escaped, three written as they are
RejectionRow(order) ==
  << order.invoiceNumber, Escaped(order.customerName), Escaped(order.productName),
     Escaped(order.poNumber), order.dueDate, order.amount, Escaped(order.reason) >>

RECURSIVE RejectionRows(_)
RejectionRows(orders) ==
  IF Len(orders) = 0 THEN <<>>
  ELSE Join(RejectionRow(Head(orders)), <<",">>) \o <<"\n">> \o RejectionRows(Tail(orders))

generateRejectionFile(orders) ==
  IF Len(orders) = 0 THEN <<"N","o"," ","r","e","j","e","c","t","e","d"," ","o","r","d","e","r","s",".">>
  ELSE Join(RejectionHeaders, <<",">>) \o <<"\n">> \o RejectionRows(orders)

\* processFiles without its catch: the promise rejects with the error
ProcessFilesRethrow(message) == [rejected |-> TRUE, error |-> message]

\* the catch of processFiles
ProcessFilesCatch(message) ==
  [success |-> FALSE, message |-> <<"Error processing files: ", message>>]

\* a run that reports failure as soon as an order was rejected
ProcessFilesResultStrict(rejected) ==
  [success |-> Len(rejected) = 0,
   message |-> <<"Monarch job import files generated successfully!">>,
   rejectedCount |-> Len(rejected)]

\* the object processFiles returns at its end
ProcessFilesResult(rejected) ==
  [success |-> TRUE,
   message |-> <<"Monarch job import files generated successfully!">>
               \o (IF Len(rejected) > 0
                   THEN <<" ", NatToStr(Len(rejected)),
                          " orders were rejected due to missing customer data.">>
                   ELSE <<>>),
   rejectedCount |-> Len(rejected)]

\* processFiles(files), up to the FileReader reads it starts
ProcessFiles(f) ==
  /\ kind = "job"
  /\ pc = "idle"
  /\ files' = f
  /\ pc' = "parsing"
  /\ UNCHANGED <<wipState, custState, kind, aside, customerData, orderData, rejectedOrders, ordersByInvoice,
                 gi, mainJobs, subJobs, lookups, downloads, localStorage, result>>

\* parseCSVFile of every file given, and await Promise.all(promises): a file
\* that loads stores its rows; a reader error rejects, which the catch of
\* processFiles turns into the failure result
ParseCSVFile ==
  /\ kind = "job"
  /\ pc = "parsing"
  /\ customerData' = IF files.customer.file = "csv" THEN files.customer.rows
                     ELSE customerData
  /\ orderData' = IF files.order.file = "csv" THEN files.order.rows ELSE orderData
  /\ IF files.customer.file = "unreadable" \/ files.order.file = "unreadable"
     THEN /\ result' = ProcessFilesCatch("undefined")
          /\ pc' = "done"
     ELSE /\ result' = result
          /\ pc' = "mapping"
  /\ UNCHANGED <<wipState, custState, kind, aside, files, rejectedOrders, ordersByInvoice, gi, mainJobs,
                 subJobs, lookups, downloads, localStorage>>

\* a mapping step that never leaves its place: the run loops forever
MapOrdersToMonarchAgain ==
  /\ kind = "job"
  /\ pc = "mapping"
  /\ rejectedOrders' = <<>>
  /\ ordersByInvoice' = GroupOrders(orderData, 1, <<>>)
  /\ mainJobs' = <<>>
  /\ subJobs' = <<>>
  /\ gi' = 1
  /\ pc' = "mapping"
  /\ UNCHANGED <<wipState, custState, kind, aside, files, customerData, orderData, lookups,
                 downloads, localStorage, result>>

\* mapOrdersToMonarch, up to its loop over the groups
MapOrdersToMonarch ==
  /\ kind = "job"
  /\ pc = "mapping"
  /\ rejectedOrders' = <<>>
  /\ ordersByInvoice' = GroupOrders(orderData, 1, <<>>)
  /\ mainJobs' = <<>>
  /\ subJobs' = <<>>
  /\ gi' = 1
  /\ pc' = "resolving"
  /\ UNCHANGED <<wipState, custState, kind, aside, files, customerData, orderData, lookups, downloads,
                 localStorage, result>>

\* a lookup made with the customer name of the group's last line
SearchCustomersByLastLine ==
  /\ kind = "job"
  /\ pc = "resolving"
  /\ gi <= Len(ordersByInvoice)
  /\ lookups' = Append(lookups,
                       [query |-> orderData[ordersByInvoice[gi].orders[
                                              Len(ordersByInvoice[gi].orders)]].cust,
                        at |-> gi, settled |-> "pending"])
  /\ pc' = "awaiting"
  /\ UNCHANGED <<wipState, custState, kind, aside, files, customerData, orderData,
                 rejectedOrders, ordersByInvoice, gi, mainJobs, subJobs, downloads,
                 localStorage, result>>

\* the loop reaches a group: await customerApiService.searchCustomers(customerName)
SearchCustomers ==
  /\ kind = "job"
  /\ pc = "resolving"
  /\ gi <= Len(ordersByInvoice)
  /\ lookups' = Append(lookups,
                       [query |-> orderData[ordersByInvoice[gi].orders[1]].cust,
                        at |-> gi, settled |-> "pending"])
  /\ pc' = "awaiting"
  /\ UNCHANGED <<wipState, custState, kind, aside, files, customerData, orderData, rejectedOrders,
                 ordersByInvoice, gi, mainJobs, subJobs, downloads, localStorage,
                 result>>

\* the sub-jobs of a group: orders[1..] in order
SubJobsOf(group, jobId, monarchCustomerId, poNumber, dueDate, shipDate, contactName) ==
  [k \in 1..(Len(group.orders) - 1) |->
     [fields |-> SubJob(jobId, k, orderData[group.orders[k + 1]], monarchCustomerId,
                        poNumber, dueDate, shipDate, contactName),
      inv |-> group.invoiceNumber,
      row |-> group.orders[k + 1]]]

\* the rest of the loop body, once searchCustomers has settled with resp
ResolveGroup(resp) ==
  /\ kind = "job"
  /\ pc = "awaiting"
  /\ LET group == ordersByInvoice[gi]
         invoiceNumber == group.invoiceNumber
         jobId == JobId(invoiceNumber)
         firstOrder == orderData[group.orders[1]]
         dueDate == DateOrEmpty(firstOrder.due)
         shipDate == DateOrEmpty(firstOrder.ship)
         poNumber == firstOrder.po
         customerName == firstOrder.cust
         contactName == ContactName(customerData, customerName)
     IN IF resp.kind = "error"
        THEN /\ rejectedOrders' =
                  Append(rejectedOrders,
                         RejectedOrder(invoiceNumber, firstOrder, poNumber, dueDate,
                                       S_ApiErrorPrefix \o resp.message))
             /\ UNCHANGED <<mainJobs, subJobs>>
        ELSE IF resp.kind = "array" /\ Len(resp.ids) > 0
        THEN LET monarchCustomerId == Substring0(resp.ids[1], 8)
             IN /\ mainJobs' =
                     Append(mainJobs,
                            [fields |-> MainJob(jobId, firstOrder, monarchCustomerId,
                                                poNumber, dueDate, shipDate, contactName),
                             inv |-> invoiceNumber,
                             row |-> group.orders[1]])
                /\ subJobs' = subJobs \o SubJobsOf(group, jobId, monarchCustomerId,
                                                   poNumber, dueDate, shipDate,
                                                   contactName)
                /\ UNCHANGED rejectedOrders
        ELSE /\ rejectedOrders' =
                  Append(rejectedOrders,
                         RejectedOrder(invoiceNumber, firstOrder, poNumber, dueDate,
                                       S_NotFound))
             /\ UNCHANGED <<mainJobs, subJobs>>
  /\ gi' = gi + 1
  /\ pc' = "resolving"
  /\ lookups' = [lookups EXCEPT ![Len(lookups)].settled = Settled(resp)]
  /\ UNCHANGED <<wipState, custState, kind, aside, files, customerData, orderData, ordersByInvoice,
                 downloads, localStorage, result>>

\* the loop is over: generateJobImportFiles encodes, processFiles downloads,
\* stores and returns
GenerateJobImportFiles ==
  /\ kind = "job"
  /\ pc = "resolving"
  /\ gi > Len(ordersByInvoice)
  /\ LET mainJobsFile == generateFixedWidthFile(mainJobs)
         subJobsFile == generateFixedWidthFile(subJobs)
     IN /\ downloads' = downloads
              \o << [filename |-> "monarch_main_jobs.txt", content |-> mainJobsFile],
                    [filename |-> "monarch_sub_jobs.txt", content |-> subJobsFile] >>
              \o (IF Len(rejectedOrders) > 0
                  THEN << [filename |-> "monarch_rejected_orders.txt",
                           content |-> generateRejectionFile(rejectedOrders)] >>
                  ELSE <<>>)
        /\ localStorage' = SetItem(localStorage, "monarch_job_import",
                                   mainJobsFile \o subJobsFile)
  /\ result' = ProcessFilesResult(rejectedOrders)
  /\ pc' = "done"
  /\ UNCHANGED <<wipState, custState, kind, aside, files, customerData, orderData, rejectedOrders,
                 ordersByInvoice, gi, mainJobs, subJobs, lookups>>

(* ------------------------------ WIPImporter --------------------------- *)
\* A spreadsheet cell as SheetJS yields it: a string, or a number kept as the
\* text toString() gives. An empty cell is the string '' (defval: '').
Str(text) == [t |-> "string", v |-> text]

Num(text) == [t |-> "number", v |-> text]

\* JavaScript truthiness of a cell: '' and 0 are falsy
Truthy(cell) == cell.v # <<>> /\ ~(cell.t = "number" /\ cell.v = S_0)

\* An object is the sequence of its [key, value] entries in insertion order.
HasKey(obj, key) == \E k \in 1..Len(obj) : obj[k].key = key

Get(obj, key) == obj[CHOOSE k \in 1..Len(obj) : obj[k].key = key].value

\* obj[key] = value
Put(obj, key, value) ==
  IF HasKey(obj, key)
  THEN [k \in 1..Len(obj) |-> IF obj[k].key = key
                              THEN [key |-> key, value |-> value] ELSE obj[k]]
  ELSE Append(obj, [key |-> key, value |-> value])

\* row[name] !== undefined && row[name] !== ''
Filled(row, key) == HasKey(row, key) /\ Get(row, key) # Str(<<>>)

\* the keys of row that match name ignoring case and surrounding blanks and
\* hold a value, in key order
LooseMatches(row, name) ==
  { k \in 1..Len(row) :
      /\ ToLowerCase(Trim(row[k].key)) = ToLowerCase(Trim(name))
      /\ row[k].value # Str(<<>>) }

RECURSIVE findColumn(_, _)
findColumn(row, possibleNames) ==
  IF possibleNames = <<>> THEN Str(<<>>)
  ELSE LET name == Head(possibleNames)
       IN IF Filled(row, name) THEN Get(row, name)
          ELSE IF LooseMatches(row, name) # {}
          THEN row[CHOOSE k \in LooseMatches(row, name) :
                     \A j \in LooseMatches(row, name) : k <= j].value
          ELSE findColumn(row, Tail(possibleNames))

orderIdColumns ==
  << <<"O","r","d","e","r"," ","I","D">>, <<"O","r","d","e","r","I","D">>, <<"O","r","d","e","r"," ","I","d">>, <<"o","r","d","e","r"," ","i","d">>, <<"O","R","D","E","R"," ","I","D">>, <<"J","o","b"," ","I","D">>,
     <<"J","o","b","I","D">>, <<"J","o","b"," ","N","u","m","b","e","r">>, <<"O","r","d","e","r"," ","N","u","m","b","e","r">>, <<"O","r","d","e","r"," ","#">> >>

customerNameColumns ==
  << <<"C","u","s","t","o","m","e","r"," ","N","a","m","e">>, <<"C","u","s","t","o","m","e","r","N","a","m","e">>, <<"C","u","s","t","o","m","e","r">>, <<"c","u","s","t","o","m","e","r"," ","n","a","m","e">>,
     <<"C","U","S","T","O","M","E","R"," ","N","A","M","E">>, <<"C","l","i","e","n","t"," ","N","a","m","e">>, <<"C","l","i","e","n","t">> >>

projectNameColumns ==
  << <<"P","r","o","j","e","c","t"," ","N","a","m","e">>, <<"P","r","o","j","e","c","t","N","a","m","e">>, <<"P","r","o","j","e","c","t">>, <<"p","r","o","j","e","c","t"," ","n","a","m","e">>, <<"P","R","O","J","E","C","T"," ","N","A","M","E">>,
     <<"J","o","b"," ","N","a","m","e">>, <<"D","e","s","c","r","i","p","t","i","o","n">>, <<"J","o","b"," ","D","e","s","c","r","i","p","t","i","o","n">> >>

dueDateColumns ==
  << <<"D","u","e"," ","D","a","t","e">>, <<"D","u","e","D","a","t","e">>, <<"d","u","e"," ","d","a","t","e">>, <<"D","U","E"," ","D","A","T","E">>, <<"D","a","t","e"," ","D","u","e">>, <<"D","e","a","d","l","i","n","e">> >>

orderValueColumns ==
  << <<"O","r","d","e","r"," ","V","a","l","u","e">>, <<"O","r","d","e","r","V","a","l","u","e">>, <<"o","r","d","e","r"," ","v","a","l","u","e">>, <<"O","R","D","E","R"," ","V","A","L","U","E">>, <<"V","a","l","u","e">>,
     <<"A","m","o","u","n","t">>, <<"T","o","t","a","l">>, <<"P","r","i","c","e">> >>

\* /^\d{4,7}$/.test(text)
MatchesOrderIdPattern(text) == Len(text) \in 4..7 /\ AllDigits(text)

\* the test without trim()
isValidOrderIdUntrimmed(orderId) ==
  IF ~Truthy(orderId) THEN FALSE
  ELSE MatchesOrderIdPattern(orderId.v)

isValidOrderId(orderId) ==
  IF ~Truthy(orderId) THEN FALSE
  ELSE MatchesOrderIdPattern(Trim(orderId.v))

\* the object pushed to this.skippedRows for the row at index (from 0)
SkippedRow(index, orderId, customerName) ==
  [rowNumber |-> index + 2,
   orderId |-> IF Truthy(orderId) THEN orderId ELSE Str(<<"(","e","m","p","t","y",")">>),
   customerName |-> IF Truthy(customerName) THEN customerName ELSE Str(<<>>),
   reason |-> IF Truthy(orderId) THEN <<"I","n","v","a","l","i","d"," ","O","r","d","e","r"," ","I","D"," ","f","o","r","m","a","t",":"," ">> \o orderId.v
              ELSE <<"M","i","s","s","i","n","g"," ","O","r","d","e","r"," ","I","D">>]

RECURSIVE FilterRows(_, _)
\* this.wipData.forEach((row, index) => ...) of filterValidOrders. A valid
\* row gets _orderId and _customerName and is pushed to filteredData, which
\* holds the row objects of wipData themselves: here their indices.
\* (orderId and customerName range over the one value findColumn gives, so
\* that the columns are searched once per row)
FilterRows(acc, i) ==
  IF i > Len(acc.wipData) THEN acc
  ELSE LET row == acc.wipData[i]
       IN CHOOSE rest \in
            { IF isValidOrderId(orderId)
              THEN FilterRows([acc EXCEPT
                                 !.wipData[i] = Put(Put(row, <<"_","o","r","d","e","r","I","d">>, orderId),
                                                    <<"_","c","u","s","t","o","m","e","r","N","a","m","e">>, customerName),
                                 !.filteredData = Append(@, i)],
                              i + 1)
              ELSE FilterRows([acc EXCEPT
                                 !.skippedRows =
                                    Append(@, SkippedRow(i - 1, orderId, customerName))],
                              i + 1) :
              orderId \in { findColumn(row, orderIdColumns) },
              customerName \in { findColumn(row, customerNameColumns) } } : TRUE

filterValidOrders(data) ==
  FilterRows([wipData |-> data, filteredData |-> <<>>, skippedRows |-> <<>>], 1)

\* the calendar date (UTC) that lies the given number of days after 1970-01-01
CivilFromDays(days) ==
  CHOOSE civil \in
    { LET era == z \div 146097
          doe == z - era * 146097
          yoe == (doe - doe \div 1460 + doe \div 36524 - doe \div 146096) \div 365
          doy == doe - (365 * yoe + yoe \div 4 - yoe \div 100)
          mp == (5 * doy + 2) \div 153
          m == IF mp < 10 THEN mp + 3 ELSE mp - 9
      IN [valid |-> TRUE, month |-> m, day |-> doy - (153 * mp + 2) \div 5 + 1,
          year |-> yoe + era * 400 + (IF m <= 2 THEN 1 ELSE 0)] :
      z \in { days + 719468 } } : TRUE

\* WIPImporter.formatDate(dateValue): a number is an Excel serial (whole
\* days, read in UTC), a string is parsed; an Invalid Date gives ''
wipFormatDate(dateValue) ==
  IF ~Truthy(dateValue) THEN <<>>
  ELSE CHOOSE text \in
         { IF ~d.valid THEN <<>>
           ELSE PadStart(NatToStr(d.month), 2, "0") \o <<"/">>
                \o PadStart(NatToStr(d.day), 2, "0") \o <<"/">> \o NatToStr(d.year) :
           d \in { IF dateValue.t = "number"
                   THEN CivilFromDays(StrToNat(dateValue.v) - 25569)
                   ELSE ParseDate(dateValue.v) } } : TRUE

\* text.replace(/[$,]/g, '')
RECURSIVE StripCurrency(_)
StripCurrency(text) ==
  IF text = <<>> THEN <<>>
  ELSE IF Head(text) \in {"$", ","} THEN StripCurrency(Tail(text))
  ELSE <<Head(text)>> \o StripCurrency(Tail(text))

formatCurrency(value) ==
  IF ~Truthy(value) THEN S_000
  ELSE CHOOSE text \in
         { IF num.nan THEN S_000 ELSE ToFixed2(num) :
           num \in { ParseFloat(StripCurrency(value.v)) } } : TRUE

\* (row._orderId || '').toString().trim()
RowOrderId(row) ==
  IF HasKey(row, <<"_","o","r","d","e","r","I","d">>) /\ Truthy(Get(row, <<"_","o","r","d","e","r","I","d">>))
  THEN Trim(Get(row, <<"_","o","r","d","e","r","I","d">>).v) ELSE <<>>

\* row._customerName || ''
RowCustomerName(row) ==
  IF HasKey(row, <<"_","c","u","s","t","o","m","e","r","N","a","m","e">>) /\ Truthy(Get(row, <<"_","c","u","s","t","o","m","e","r","N","a","m","e">>))
  THEN Get(row, <<"_","c","u","s","t","o","m","e","r","N","a","m","e">>) ELSE Str(<<>>)

\* a job id cut to 7 characters
WipJobIdOfSeven(orderId) == Substring0(PadEnd(<<"N">> \o orderId, 8, " "), 7)

\* ('N' + orderId).padEnd(8, ' ').substring(0, 8)
WipJobId(orderId) == Substring0(PadEnd(<<"N">> \o orderId, 8, " "), 8)

\* the object pushed to this.rejectedOrders by mapToMonarchFormat; row is
\* the history of which row of wipData it stands for
\* (the cells range over the one value findColumn gives, so that the
\* columns are searched once)
WipRejectedOrder(index, row, reason) ==
  CHOOSE rejected \in
    { [orderId |-> RowOrderId(row), customerName |-> RowCustomerName(row),
       projectName |-> projectName,
       dueDate |-> wipFormatDate(dueDate),
       orderValue |-> formatCurrency(orderValue),
       reason |-> reason, row |-> index] :
      projectName \in { findColumn(row, projectNameColumns) },
      dueDate \in { findColumn(row, dueDateColumns) },
      orderValue \in { findColumn(row, orderValueColumns) } } : TRUE

\* the record pushed to jobs; projectName is a string here
\* (the cells range over the one value findColumn gives, so that the
\* columns are searched once)
WipJob(row, monarchCustomerId) ==
  CHOOSE job \in
    { << Field("job_id", WipJobId(RowOrderId(row)), 1, 8),
          Field("sub_job_id", S_Blank4, 9, 4),
          Field("job_description", Substring0(projectName, 254), 13, 254),
          Field("job_type", S_Production, 267, 19),
          Field("item_id", <<>>, 286, 15),
          Field("cust_ordered_by", monarchCustomerId, 301, 8),
          Field("cust_billed_to", monarchCustomerId, 309, 8),
          Field("sales_class_id", S_113, 317, 8),
          Field("po_number", <<>>, 325, 20),
          Field("date_promised", dueDate, 345, 10),
          Field("ship_date", <<>>, 355, 10),
          Field("qty_ordered", S_1, 365, 11),
          Field("priority", <<>>, 376, 10),
          Field("contact_name", <<>>, 386, 30),
          Field("expense_code", <<>>, 416, 24),
          Field("shop_floor_active", S_0, 440, 1),
          Field("form_number", <<>>, 441, 20),
          Field("quotation_amount", orderValue, 461, 15),
          Field("unit_of_measure_id", S_Each, 476, 4),
          Field("unit_price", orderValue, 480, 16),
          Field("job_title", Substring0(projectName, 50), 496, 50),
          Field("forest_type_id", <<>>, 546, 15),
          [name |-> "_metadata", customerName |-> RowCustomerName(row)] >> :
      projectName \in { findColumn(row, projectNameColumns).v },
      dueDate \in { wipFormatDate(cell) : cell \in { findColumn(row, dueDateColumns) } },
      orderValue \in { formatCurrency(cell) :
                         cell \in { findColumn(row, orderValueColumns) } } } : TRUE

RECURSIVE wipPlaceFields(_, _, _)
\* the field loop of WIPImporter.generateFixedWidthFile
wipPlaceFields(line, fields, k) ==
  IF k > Len(fields) THEN line
  ELSE CHOOSE placed \in
         { wipPlaceFields(written, fields, k + 1) :
             written \in { IF fields[k].name = "_metadata" THEN line
                           ELSE IF fields[k].value # <<>>
                           THEN WriteField(line, fields[k].value, fields[k].pos,
                                           fields[k].len)
                           ELSE line } } : TRUE

WipLine(fields) == wipPlaceFields(Repeat(" ", JobLineLength), fields, 1)

RECURSIVE wipGenerateFixedWidthFile(_)
wipGenerateFixedWidthFile(jobs) ==
  IF jobs = <<>> THEN <<>>
  ELSE WipLine(Head(jobs).fields) \o <<"\n">> \o wipGenerateFixedWidthFile(Tail(jobs))

\* the catch of WIPImporter.processFile
WipProcessFileCatch(message) ==
  [success |-> FALSE, message |-> <<"Error processing XLS file: ", message>>]

\* a result that counts every filtered row as a record, rejected or not
WipProcessFileResultAllValid(validCount, skipped, rejected) ==
  [success |-> TRUE,
   message |-> <<"WIP import file generated successfully with ",
                 NatToStr(validCount), " records">>,
   recordCount |-> validCount,
   skippedCount |-> Len(skipped),
   skippedRows |-> skipped,
   rejectedCount |-> Len(rejected),
   rejectedOrders |-> rejected]

\* the object WIPImporter.processFile returns at its end
WipProcessFileResult(validCount, skipped, rejected) ==
  [success |-> TRUE,
   message |-> <<"WIP import file generated successfully with ",
                 NatToStr(validCount - Len(rejected)), " records">>
               \o (IF Len(skipped) > 0
                   THEN <<" (", NatToStr(Len(skipped)),
                          " rows skipped - invalid Order ID format)">>
                   ELSE <<>>)
               \o (IF Len(rejected) > 0
                   THEN <<" (", NatToStr(Len(rejected)),
                          " orders rejected - customer not found)">>
                   ELSE <<>>),
   recordCount |-> validCount - Len(rejected),
   skippedCount |-> Len(skipped),
   skippedRows |-> skipped,
   rejectedCount |-> Len(rejected),
   rejectedOrders |-> rejected]

\* A data row of the sheet as parseXLSFile builds it: one entry per header,
\* the headers trimmed
WipRow(orderId, jobNumber, customer, project, due, total) ==
  << [key |-> <<"o","r","d","e","r"," ","I","D">>, value |-> orderId],
     [key |-> <<"J","o","b"," ","N","u","m","b","e","r">>, value |-> jobNumber],
     [key |-> <<"C","u","s","t","o","m","e","r">>, value |-> customer],
     [key |-> <<"P","r","o","j","e","c","t"," ","N","a","m","e">>, value |-> project],
     [key |-> <<"D","u","e"," ","D","a","t","e">>, value |-> due],
     [key |-> <<"T","o","t","a","l">>, value |-> total] >>

WipRows ==
  { WipRow(Num(<<"1","2","3","4","5","6","7">>), Str(<<>>), Str(<<"A","c","m","e"," ","C","o">>), Str(<<"B","r","o","c","h","u","r","e">>), Num(<<"4","5","7","3","1">>),
           Str(<<"$","1",",","2","5","0",".","5">>)),
    WipRow(Str(<<"A","B","C","1","2">>), Str(<<>>), Str(<<"B","e","t","a">>), Str(<<"F","l","y","e","r">>), Str(<<"T","B","D">>), Num(<<"4","0">>)),
    WipRow(Str(<<" ","4","5","2","1"," ">>), Str(<<>>), Str(<<"A","c","m","e"," ","C","o">>), Num(<<"2","0","2","4">>), Str(<<"0","3","/","1","5","/","2","0","2","5">>),
           Str(<<>>)),
    WipRow(Str(<<>>), Str(<<"7","0","0","1">>), Str(<<"G","a","m","m","a">>), Str(<<>>), Str(<<"T","B","D">>), Num(<<"0">>)),
    WipRow(Str(<<>>), Str(<<>>), Str(<<"D","e","l","t","a">>), Str(<<"P","o","s","t","e","r">>), Str(<<>>), Str(<<>>)) }

Sheet(rows) == [file |-> "xls", rows |-> rows]

\* the file handed to WIPImporter.processFile
WipFiles == {Unreadable} \cup { Sheet(r) : r \in SeqsUpTo(WipRows, MaxWipRows) }

\* processFile(file), up to the FileReader read it starts
WipProcessFile(f) ==
  /\ kind = "wip"
  /\ pc = "idle"
  /\ files' = f
  /\ pc' = "parsing"
  /\ UNCHANGED <<jobState, wipState, custState, kind, aside, rejectedOrders, gi, mainJobs,
                 lookups, downloads, localStorage, result>>

\* await this.parseXLSFile(file) and the check that follows it: a read or
\* decode error is caught by processFile; a sheet without data rows fails
ParseXLSFile ==
  /\ kind = "wip"
  /\ pc = "parsing"
  /\ IF files.file = "unreadable"
     THEN /\ result' = WipProcessFileCatch("undefined")
          /\ pc' = "done"
          /\ UNCHANGED wipData
     ELSE /\ wipData' = files.rows
          /\ IF Len(files.rows) = 0
             THEN /\ result' = [success |-> FALSE,
                                message |-> <<"No data found in XLS file">>]
                  /\ pc' = "done"
             ELSE /\ result' = result
                  /\ pc' = "filtering"
  /\ UNCHANGED <<jobState, custState, kind, aside, files, filteredData, skippedRows,
                 rejectedOrders, gi, mainJobs, lookups, downloads, localStorage>>

\* filterValidOrders() and the check that follows it, then
\* mapToMonarchFormat up to its loop over filteredData
FilterValidOrders ==
  /\ kind = "wip"
  /\ pc = "filtering"
  /\ LET f == filterValidOrders(wipData)
     IN /\ wipData' = f.wipData
        /\ filteredData' = f.filteredData
        /\ skippedRows' = f.skippedRows
        /\ IF Len(f.filteredData) = 0
           THEN /\ result' =
                     [success |-> FALSE,
                      message |-> <<"No valid orders found. All ",
                                    NatToStr(Len(f.skippedRows)),
                                    " rows were skipped (Order ID must be 4-7 digits).",
                                    "\n\nColumns found: ", "rawHeaders.join(', ')",
                                    "\n\nCheck browser console (F12) for more details.">>]
                /\ pc' = "done"
                /\ UNCHANGED <<mainJobs, rejectedOrders, gi>>
           ELSE /\ result' = result
                /\ pc' = "resolving"
                /\ mainJobs' = <<>>
                /\ rejectedOrders' = <<>>
                /\ gi' = 1
  /\ UNCHANGED <<jobState, custState, kind, aside, files, lookups, downloads, localStorage>>

\* the loop reaches a row: await this.customerApiService.searchCustomers(customerName)
WipSearchCustomers ==
  /\ kind = "wip"
  /\ pc = "resolving"
  /\ gi <= Len(filteredData)
  /\ lookups' = Append(lookups,
                       [query |-> RowCustomerName(wipData[filteredData[gi]]).v,
                        at |-> filteredData[gi], settled |-> "pending"])
  /\ pc' = "awaiting"
  /\ UNCHANGED <<jobState, wipState, custState, kind, aside, files, rejectedOrders, gi,
                 mainJobs, downloads, localStorage, result>>

\* the rest of the loop body, once searchCustomers has settled with resp;
\* projectName.substring throws a TypeError when the project cell is no
\* string, which the catch of processFile turns into the failure result
WipResolveRow(resp) ==
  /\ kind = "wip"
  /\ pc = "awaiting"
  /\ LET index == filteredData[gi]
         row == wipData[index]
     IN IF resp.kind = "error"
        THEN /\ rejectedOrders' =
                  Append(rejectedOrders,
                         WipRejectedOrder(index, row, S_ApiErrorPrefix \o resp.message))
             /\ UNCHANGED <<mainJobs, result>>
             /\ pc' = "resolving"
        ELSE IF resp.kind = "array" /\ Len(resp.ids) > 0
        THEN IF findColumn(row, projectNameColumns).t = "string"
             THEN /\ mainJobs' =
                       Append(mainJobs,
                              [fields |-> WipJob(row, Substring0(resp.ids[1], 8)),
                               row |-> index])
                  /\ UNCHANGED <<rejectedOrders, result>>
                  /\ pc' = "resolving"
             ELSE /\ result' =
                       WipProcessFileCatch("projectName.substring is not a function")
                  /\ pc' = "done"
                  /\ UNCHANGED <<mainJobs, rejectedOrders>>
        ELSE /\ rejectedOrders' =
                  Append(rejectedOrders, WipRejectedOrder(index, row, S_NotFound))
             /\ UNCHANGED <<mainJobs, result>>
             /\ pc' = "resolving"
  /\ gi' = gi + 1
  /\ lookups' = [lookups EXCEPT ![Len(lookups)].settled = Settled(resp)]
  /\ UNCHANGED <<jobState, wipState, custState, kind, aside, files, downloads,
                 localStorage>>

\* the loop is over: generateWIPImportFile encodes, processFile stores the
\* file for the viewer and returns
GenerateWIPImportFile ==
  /\ kind = "wip"
  /\ pc = "resolving"
  /\ gi > Len(filteredData)
  /\ localStorage' = SetItem(localStorage, "wipImportData",
                             wipGenerateFixedWidthFile(mainJobs))
  /\ result' = WipProcessFileResult(Len(filteredData), skippedRows, rejectedOrders)
  /\ pc' = "done"
  /\ UNCHANGED <<jobState, wipState, custState, kind, aside, files, rejectedOrders, gi,
                 mainJobs, lookups, downloads>>

(* -------------------------- CustomerListImporter ---------------------- *)
\* a field PapaParse (dynamicTyping) read as empty
Null == [t |-> "null", v |-> <<>>]

\* s.endsWith(suffix)
EndsWith(s, suffix) ==
  /\ Len(s) >= Len(suffix)
  /\ SubSeq(s, Len(s) - Len(suffix) + 1, Len(s)) = suffix

\* parseInt(text): the leading digits after blanks, NaN when there are none
ParseInt(text) ==
  CHOOSE parsed \in
    { IF n = 0 THEN Num(S_NaN) ELSE Num(NatToStr(StrToNat(SubSeq(t, 1, n)))) :
      <<t, n>> \in { <<trimmed, DigitPrefixLen(trimmed)>> :
                      trimmed \in {TrimStart(text)} } } : TRUE

\* Papa.parse(content, {header: true, dynamicTyping: true}).data : one
\* object per data line, keyed by the header line
ParseCsv(content) ==
  [r \in 1..Len(content.data) |->
     [k \in 1..Len(content.fields) |->
        [key |-> content.fields[k], value |-> content.data[r][k]]]]

\* content.includes(pat) for the text of a CSV
ContentIncludes(content, pat) ==
  \/ \E k \in 1..Len(content.fields) : Includes(content.fields[k], pat)
  \/ \E r \in 1..Len(content.data) :
       \E k \in 1..Len(content.data[r]) : Includes(content.data[r][k].v, pat)

\* the test that takes a CSV of the ZIP for the user list
IsUserFile(entry) ==
  \/ ToLowerCase(entry.filename) = <<"l","i","s","t","_","c","u","s","t","o","m","e","r","_","u","s","e","r",".","c","s","v">>
  \/ (ContentIncludes(entry.content, <<"u","s","e","r","I","D">>)
      /\ ContentIncludes(entry.content, <<"c","o","n","t","a","c","t","E","m","a","i","l">>))

\* the test that takes another CSV of the ZIP for the customer list
IsCustomerFile(entry) ==
  ~IsUserFile(entry) /\ ~Includes(ToLowerCase(entry.filename), <<"_","_","m","a","c","o","s","x">>)

RECURSIVE FirstTruthy(_, _, _)
\* customer[k1] || customer[k2] || ... || default
FirstTruthy(row, keys, default) ==
  IF keys = <<>> THEN default
  ELSE IF HasKey(row, Head(keys)) /\ Truthy(Get(row, Head(keys)))
  THEN Get(row, Head(keys))
  ELSE FirstTruthy(row, Tail(keys), default)

\* the users u of userListData that the find callback of getUserEmail accepts
UserMatches(users, userID) ==
  CHOOSE matches \in
    { { k \in 1..Len(users) :
          /\ HasKey(users[k], <<"u","s","e","r","I","D">>)
          /\ IF Get(users[k], <<"u","s","e","r","I","D">>).t = "number"
             THEN /\ numericUserID.t = "number"
                  /\ numericUserID.v # S_NaN
                  /\ Get(users[k], <<"u","s","e","r","I","D">>).v = numericUserID.v
             ELSE Get(users[k], <<"u","s","e","r","I","D">>) = Str(userID.v) } :
      numericUserID \in { IF userID.t = "string" THEN ParseInt(userID.v) ELSE userID } } :
    TRUE

getUserEmail(users, userID) ==
  IF ~Truthy(userID) THEN Str(<<>>)
  ELSE CHOOSE email \in
         { IF found = {} THEN Str(<<>>)
           ELSE LET user == users[CHOOSE k \in found : \A j \in found : k <= j]
                IN IF HasKey(user, <<"c","o","n","t","a","c","t","E","m","a","i","l">>) /\ Truthy(Get(user, <<"c","o","n","t","a","c","t","E","m","a","i","l">>))
                   THEN Get(user, <<"c","o","n","t","a","c","t","E","m","a","i","l">>) ELSE Str(<<>>) :
           found \in { UserMatches(users, userID) } } : TRUE

people ==
  << [name |-> <<"h","y","l","a","n","d">>, ids |-> {35}],
     [name |-> <<"p","i","n","c","h">>, ids |-> {0, 2, 32, 5, 6, 37, 40, 42, 44}],
     [name |-> <<"l","a","w","h","o","n">>, ids |-> {48}] >>

\* getSalesmanName(salesmanID) for the number salesmanID
getSalesmanName(salesmanID) ==
  CHOOSE name \in
    { IF hits = {} THEN <<"p","i","n","c","h">>
      ELSE people[CHOOSE k \in hits : \A j \in hits : k <= j].name :
      hits \in { { k \in 1..Len(people) :
                     n.v # S_NaN /\ StrToNat(n.v) \in people[k].ids } :
                 n \in { ParseInt(salesmanID.v) } } } : TRUE

\* customer.billContactUserID || customer.userID || customer.userId || customer.user_id
CustomerUserId(customer) ==
  FirstTruthy(customer, << <<"b","i","l","l","C","o","n","t","a","c","t","U","s","e","r","I","D">>, <<"u","s","e","r","I","D">>, <<"u","s","e","r","I","d">>, <<"u","s","e","r","_","i","d">> >>, Null)

\* a flag test that takes every non-empty value for 'Y'
IsFilled(customer, key) == HasKey(customer, key) /\ Truthy(Get(customer, key))

\* customer.key === 'Y'
IsY(customer, key) == HasKey(customer, key) /\ Get(customer, key) = Str(<<"Y">>)

\* the record mapCustomerListToMonarch builds for customer, the custCode-th
\* entry of customerListData
MonarchCustomer(customer, custCode, users) ==
  LET custName == Substring0(FirstTruthy(customer, << <<"a","c","c","o","u","n","t","N","a","m","e">>, <<"c","u","s","t","o","m","e","r","N","a","m","e">>, <<"C","o","m","p","a","n","y"," ","N","a","m","e">> >>, Str(<<>>)).v, 40)
      address1 == Substring0(FirstTruthy(customer, << <<"b","t","S","t","r","e","e","t">>, <<"a","d","d","r","e","s","s","1">>, <<"S","t","r","e","e","t"," ","A","d","d","r","e","s","s">> >>, Str(<<>>)).v, 40)
      address2 == Substring0(FirstTruthy(customer, << <<"b","t","A","d","d","r","e","s","s","2">>, <<"a","d","d","r","e","s","s","2">> >>, Str(<<>>)).v, 40)
      address3 == Substring0(FirstTruthy(customer, << <<"b","t","A","d","d","r","e","s","s","3">>, <<"a","d","d","r","e","s","s","3">> >>, Str(<<>>)).v, 40)
      city == Substring0(FirstTruthy(customer, << <<"b","t","C","i","t","y">>, <<"c","i","t","y">>, <<"C","i","t","y">> >>, Str(<<>>)).v, 40)
      state == Substring0(FirstTruthy(customer, << <<"b","t","S","t","a","t","e">>, <<"s","t","a","t","e">>, <<"S","t","a","t","e">> >>, Str(<<>>)).v, 3)
      zipCode == Substring0(FirstTruthy(customer, << <<"b","t","Z","i","p">>, <<"z","i","p">>, <<"Z","i","p">> >>, Str(<<>>)).v, 10)
      country == Substring0(FirstTruthy(customer, << <<"b","t","C","o","u","n","t","r","y">>, <<"c","o","u","n","t","r","y">>, <<"C","o","u","n","t","r","y">> >>, Str(<<"U","S","A">>)).v, 40)
      phone == Substring0(FirstTruthy(customer, << <<"b","t","T","e","l","e","p","h","o","n","e">>, <<"p","h","o","n","e">>, <<"P","h","o","n","e">> >>, Str(<<>>)).v, 20)
      fax == Substring0(FirstTruthy(customer, << <<"b","t","F","a","x">>, <<"f","a","x">>, <<"F","a","x">> >>, Str(<<>>)).v, 20)
      userId == CustomerUserId(customer)
      email == IF Truthy(userId) THEN getUserEmail(users, userId).v ELSE <<>>
      arTaxCode == IF IsY(customer, <<"i","s","T","a","x","a","b","l","e">>) THEN S_1 ELSE S_3
      termsCode == Substring0(FirstTruthy(customer, << <<"b","t","T","e","r","m","s">> >>, Str(<<>>)).v, 20)
      salesmanIDNum == ParseInt(FirstTruthy(customer, << <<"s","a","l","e","s","m","a","n","I","D">> >>, Str(S_0)).v)
      salesAgentId == getSalesmanName(salesmanIDNum)
      csrId == <<>>
      poRequired == IF IsY(customer, <<"r","e","q","u","i","r","e","P","O">>) THEN S_1 ELSE S_0
  IN <<
        Field("Cust-code", NatToStr(custCode), 1, 8),
        Field("Cust-name", custName, 9, 40),
        Field("Address-1", address1, 49, 40),
        Field("Address-2", address2, 89, 40),
        Field("Address-3", address3, 129, 40),
        Field("City", city, 169, 40),
        Field("State", state, 209, 3),
        Field("Zip", zipCode, 212, 10),
        Field("Country", country, 222, 40),
        Field("Phone", phone, 262, 20),
        Field("FAX", fax, 282, 20),
        Field("E-Mail-Address", email, 302, 80),
        Field("AR-Tax-Code", arTaxCode, 382, 10),
        Field("Terms-Code", termsCode, 392, 20),
        Field("Sales-agent-id", salesAgentId, 412, 8),
        Field("CSR-ID", csrId, 420, 3),
        Field("territory-id", <<>>, 423, 12),
        Field("Cust-ID-Bill-to", <<>>, 435, 8),
        Field("Group-ID", <<>>, 443, 12),
        Field("Priority", <<>>, 455, 10),
        Field("Estimate-Markup-Pct", <<>>, 465, 6),
        Field("Overs-Allowed", <<>>, 471, 5),
        Field("Date-First-Order", <<>>, 476, 10),
        Field("PO-Required", poRequired, 486, 1),
        Field("AR-Stmt", <<"0">>, 487, 1),
        Field("AR-Stmt-Dunning-Msg", <<"0">>, 488, 1),
        Field("Inter-company", <<"0">>, 489, 1),
        Field("System-ID-Inter-company", <<>>, 490, 12),
        Field("Bank", <<>>, 502, 20),
        Field("Bank-acct-num", <<>>, 522, 20),
        Field("Sales-tax-exempt", <<>>, 542, 20),
        Field("Credit-Limit", <<>>, 562, 14),
        Field("Shipment-Method-ID", <<>>, 576, 8),
        Field("Tax-Number", <<>>, 584, 20),
        Field("Addl-Tax-Number", <<>>, 604, 20),
        Field("Industry-Code", <<>>, 624, 8),
        Field("Locale-ID", <<"U","S","A">>, 632, 6),
        Field("Prograph-Customer-Type", <<>>, 638, 1),
        Field("Prograph-Shipper", <<>>, 639, 1),
        Field("Prograph-Paper-Owner", <<>>, 640, 1),
        Field("Prograph-Advertiser", <<>>, 641, 1),
        Field("Prograph-Advertising-Agency", <<>>, 642, 1),
        Field("Allow-PSF-Access", <<>>, 643, 1),
        Field("PSF-Auto-Accept-Orders", <<>>, 644, 1),
        Field("PrinterSite-Exchange", <<>>, 645, 1),
        Field("Available-in-PrintStream", <<"0">>, 646, 1),
        Field("PS-Fulfillment", <<>>, 647, 8),
        Field("PS-Franchise-Number", <<>>, 655, 30),
        Field("PS-Store-Number", <<>>, 685, 30),
        Field("PS-Credit-Hold", <<>>, 715, 1),
        Field("AR-Stmt-Finance-Chrg", <<>>, 716, 1),
        Field("Allow-OPS", <<>>, 717, 1),
        Field("iQuote-Customer-ID", <<>>, 718, 15),
        Field("ARStatementDelivery", <<"P","r","i","n","t","e","r">>, 733, 7),
        Field("BatchCloseInvDelivery", <<"N","o","n","e">>, 740, 7),
        Field("PointOfTitleTransfer", <<"O","r","i","g","i","n">>, 747, 11) >>

\* this.customerListData.map(...) of mapCustomerListToMonarch; row is the
\* history of which entry of customerListData the record stands for
mapCustomerListToMonarch(customers, users) ==
  [k \in 1..Len(customers) |->
     [fields |-> MonarchCustomer(customers[k], k, users), row |-> k]]

CustomerLineLength == 758

RECURSIVE custPlaceFields(_, _, _)
\* for (const [field, def] of Object.entries(customer))
\*   if (def.value !== undefined) ...
\* (written ranges over the one line the k-th field leaves, so that the line
\* is computed once per field)
custPlaceFields(line, fields, k) ==
  IF k > Len(fields) THEN line
  ELSE CHOOSE placed \in
         { custPlaceFields(written, fields, k + 1) :
             written \in { WriteField(line, fields[k].value, fields[k].pos,
                                      fields[k].len) } } : TRUE

\* a buffer built as the job encoder's is written, new Array(758 + 1), but filled
CustomerLineOneMore(fields) ==
  CHOOSE line \in { custPlaceFields(Repeat(" ", CustomerLineLength + 1), record, 1) :
                      record \in {fields} } : TRUE

\* one line of generateCustomerImportFile
CustomerLine(fields) ==
  CHOOSE line \in { custPlaceFields(Repeat(" ", CustomerLineLength), record, 1) :
                      record \in {fields} } : TRUE

RECURSIVE EncodeCustomers(_)
\* result += line.join('') + '\n' for every customer
EncodeCustomers(customers) ==
  CHOOSE encoded \in
    { IF records = <<>> THEN <<>>
      ELSE CustomerLine(Head(records).fields) \o <<"\n">>
           \o EncodeCustomers(Tail(records)) : records \in {customers} } : TRUE

generateCustomerImportFile(customers, users) ==
  EncodeCustomers(mapCustomerListToMonarch(customers, users))

\* the catch of CustomerListImporter.processFile
CustProcessFileCatch(message) ==
  [success |-> FALSE, message |-> <<"Error processing customer list: ", message>>]

\* the object CustomerListImporter.processFile returns at its end
CustProcessFileResult(customers, users) ==
  [success |-> TRUE,
   message |-> <<"Customer import file generated successfully!">>,
   summary |->
     [customers |-> Len(customers),
      users |-> Len(users),
      emailsMatched |->
        Cardinality({ k \in 1..Len(customers) :
          /\ HasKey(customers[k], <<"b","i","l","l","C","o","n","t","a","c","t","U","s","e","r","I","D">>)
          /\ Truthy(Get(customers[k], <<"b","i","l","l","C","o","n","t","a","c","t","U","s","e","r","I","D">>))
          /\ Truthy(getUserEmail(users, Get(customers[k], <<"b","i","l","l","C","o","n","t","a","c","t","U","s","e","r","I","D">>))) })]]

\* the header line of the customer list export
CustomerFields ==
  << <<"a","c","c","o","u","n","t","N","a","m","e">>, <<"b","t","C","i","t","y">>, <<"b","t","S","t","a","t","e">>, <<"b","t","Z","i","p">>, <<"i","s","T","a","x","a","b","l","e">>,
     <<"b","i","l","l","C","o","n","t","a","c","t","U","s","e","r","I","D">>, <<"s","a","l","e","s","m","a","n","I","D">>, <<"r","e","q","u","i","r","e","P","O">> >>

\* data lines of the customer list as PapaParse types them
CustomerLines ==
  { << Str(<<"A","c","m","e"," ","C","o">>), Str(<<"R","e","n","o">>), Str(<<"N","V">>), Num(<<"8","9","5","0","1">>), Str(<<"Y">>),
       Num(<<"7">>), Num(<<"3","5">>), Str(<<"Y">>) >>,
    << Str(<<"T","h","e"," ","V","e","r","y"," ","L","o","n","g"," ","C","u","s","t","o","m","e","r"," ","N","a","m","e"," ","P","r","i","n","t","i","n","g"," ","C","o","m","p","a","n","y"," ","o","f"," ","N","e","v","a","d","a">>), Null,
       Str(<<"N","e","v","a","d","a">>), Str(<<"8","9","5","0","1","-","1","2","3","4","-","9","9">>), Str(<<"N">>), Str(<<"8">>), Str(<<"4","8">>), Null >>,
    << Str(<<"B","e","t","a">>), Str(<<"E","l","k","o">>), Null, Null, Null, Num(<<"9","9">>), Null, Str(<<"N">>) >> }

UserFields == << <<"u","s","e","r","I","D">>, <<"c","o","n","t","a","c","t","E","m","a","i","l">> >>

UserLines ==
  << << Num(<<"7">>),
        Str(<<"a","l","@","a","c","m","e",".","i","o">>) >>,
     << Num(<<"8">>), Str(Repeat("m", 80) \o <<"@","x",".","i","o">>) >>,
     << Num(<<"9">>), Null >> >>

ZipEntry(filename, dir, fields, data) ==
  [filename |-> filename, dir |-> dir,
   content |-> [fields |-> fields, data |-> data]]

CustomerEntry(data) == ZipEntry(<<"c","u","s","t","o","m","e","r","s",".","c","s","v">>, FALSE, CustomerFields, data)

UserEntry == ZipEntry(<<"L","i","s","t","_","C","u","s","t","o","m","e","r","_","U","s","e","r",".","c","s","v">>, FALSE, UserFields, UserLines)

ZipFile(name, entries) == [file |-> "zip", name |-> name, entries |-> entries]

\* a customer list whose user column is headed userID, one of the names
\* mapCustomerListToMonarch reads the user id from
CustomerFieldsByUserID ==
  [k \in 1..Len(CustomerFields) |->
     IF CustomerFields[k] = <<"b","i","l","l","C","o","n","t","a","c","t","U","s","e","r","I","D">> THEN <<"u","s","e","r","I","D">> ELSE CustomerFields[k]]

AcmeLine == CHOOSE l \in CustomerLines : l[1] = Str(<<"A","c","m","e"," ","C","o">>)

BetaLine == CHOOSE l \in CustomerLines : l[1] = Str(<<"B","e","t","a">>)

\* the file handed to CustomerListImporter.processFile
CustFiles ==
  { ZipFile(<<"e","x","p","o","r","t",".","z","i","p">>, << CustomerEntry(d), UserEntry >>) :
      d \in SeqsUpTo(CustomerLines, MaxCustRows) }
  \cup
  { ZipFile(<<"e","x","p","o","r","t",".","c","s","v">>, << CustomerEntry(<<>>), UserEntry >>),
    [file |-> "unreadable", name |-> <<"e","x","p","o","r","t",".","z","i","p">>],
    ZipFile(<<"e","x","p","o","r","t",".","z","i","p">>, << UserEntry >>),
    ZipFile(<<"e","x","p","o","r","t",".","z","i","p">>, << CustomerEntry(<<>>) >>),
    ZipFile(<<"e","x","p","o","r","t",".","z","i","p">>,
            << ZipEntry(<<"d","a","t","a","/">>, TRUE, <<>>, <<>>),
               ZipEntry(<<"_","_","M","A","C","O","S","X","/",".","_","c","u","s","t","o","m","e","r","s",".","c","s","v">>, FALSE, << <<"M","a","c"," ","O","S"," ","X">> >>, <<>>),
               ZipEntry(<<"r","e","a","d","m","e",".","t","x","t">>, FALSE, << <<"n","o","t","e","s">> >>, <<>>),
               UserEntry >>),
    ZipFile(<<"e","x","p","o","r","t",".","z","i","p">>,
            << ZipEntry(<<"c","u","s","t","o","m","e","r","s",".","c","s","v">>, FALSE, CustomerFieldsByUserID, <<AcmeLine>>),
               UserEntry >>),
    ZipFile(<<"e","x","p","o","r","t",".","z","i","p">>,
            << CustomerEntry(<<AcmeLine>>),
               ZipEntry(<<"a","r","c","h","i","v","e",".","c","s","v">>, FALSE, CustomerFields, <<BetaLine>>),
               UserEntry >>) }

\* processFile(file), up to the first await of parseZipFile
CustProcessFile(f) ==
  /\ kind = "customer"
  /\ pc = "idle"
  /\ files' = f
  /\ pc' = "loading"
  /\ UNCHANGED <<jobState, wipState, custState, kind, aside, rejectedOrders, gi,
                 mainJobs, lookups, downloads, localStorage, result>>

\* parseZipFile: the name check, JSZip.loadAsync and the start of the read
\* of every CSV entry; both rejections end in the catch of processFile
LoadZip ==
  /\ kind = "customer"
  /\ pc = "loading"
  /\ IF ~EndsWith(files.name, <<".","z","i","p">>)
     THEN /\ result' = CustProcessFileCatch(
                         "Please upload a ZIP file containing customer and user data.")
          /\ pc' = "done"
          /\ UNCHANGED zip
     ELSE IF files.file = "unreadable"
     THEN /\ result' = CustProcessFileCatch(
                         "Error processing ZIP file: Can't find end of central directory")
          /\ pc' = "done"
          /\ UNCHANGED zip
     ELSE /\ zip' = [pending |->
                       { k \in 1..Len(files.entries) :
                           /\ ~files.entries[k].dir
                           /\ EndsWith(ToLowerCase(files.entries[k].filename), <<".","c","s","v">>) },
                     customerFileFound |-> FALSE,
                     userFileFound |-> FALSE]
          /\ pc' = "reading"
          /\ UNCHANGED result
  /\ UNCHANGED <<jobState, wipState, customerListData, userListData, kind, aside, files,
                 rejectedOrders, gi, mainJobs, lookups, downloads, localStorage>>

\* the then-callback of one entry's read; the reads settle in any order
ReadZipEntry(k) ==
  /\ kind = "customer"
  /\ pc = "reading"
  /\ k \in zip.pending
  /\ LET entry == files.entries[k]
     IN IF IsUserFile(entry)
        THEN /\ userListData' = ParseCsv(entry.content)
             /\ zip' = [zip EXCEPT !.pending = @ \ {k}, !.userFileFound = TRUE]
             /\ UNCHANGED customerListData
        ELSE IF IsCustomerFile(entry)
        THEN /\ customerListData' = ParseCsv(entry.content)
             /\ zip' = [zip EXCEPT !.pending = @ \ {k}, !.customerFileFound = TRUE]
             /\ UNCHANGED userListData
        ELSE /\ zip' = [zip EXCEPT !.pending = @ \ {k}]
             /\ UNCHANGED <<customerListData, userListData>>
  /\ UNCHANGED <<jobState, wipState, kind, aside, pc, files, rejectedOrders, gi, mainJobs,
                 lookups, downloads, localStorage, result>>

\* Promise.all has settled: the end of parseZipFile, then the rest of
\* processFile (encode, download, store, return)
GenerateCustomerImportFile ==
  /\ kind = "customer"
  /\ pc = "reading"
  /\ zip.pending = {}
  /\ IF ~zip.customerFileFound
     THEN /\ result' = CustProcessFileCatch("Customer list CSV not found in the ZIP file.")
          /\ UNCHANGED <<downloads, localStorage>>
     ELSE IF ~zip.userFileFound
     THEN /\ result' = CustProcessFileCatch(
                         "User list CSV (list_customer_user.csv) not found in the ZIP file.")
          /\ UNCHANGED <<downloads, localStorage>>
     ELSE \E customerImport \in
               { generateCustomerImportFile(customerListData, userListData) } :
             /\ downloads' = Append(downloads,
                                    [filename |-> "monarch_customer_import.txt",
                                     content |-> customerImport])
             /\ localStorage' = SetItem(localStorage, "monarch_customer_import",
                                        customerImport)
             /\ result' = CustProcessFileResult(customerListData, userListData)
  /\ pc' = "done"
  /\ UNCHANGED <<jobState, wipState, custState, kind, aside, files, rejectedOrders, gi,
                 mainJobs, lookups>>

(* --------------------------- specification ---------------------------- *)
\* the importers as the page constructs them, before any run
Idle ==
  /\ pc = "idle"
  /\ files = Absent
  /\ customerData = <<>>
  /\ orderData = <<>>
  /\ rejectedOrders = <<>>
  /\ ordersByInvoice = <<>>
  /\ gi = 1
  /\ mainJobs = <<>>
  /\ subJobs = <<>>
  /\ lookups = <<>>
  /\ downloads = <<>>
  /\ localStorage = <<>>
  /\ result = NoResult
  /\ wipData = <<>>
  /\ filteredData = <<>>
  /\ skippedRows = <<>>
  /\ customerListData = <<>>
  /\ userListData = <<>>
  /\ zip = NoZip
  /\ other = NoRun
  /\ cleaned = NotCleaned

Init ==
  /\ kind \in {"job", "wip", "customer"}
  /\ Idle
  /\ rawDescription = <<>>

Next ==
  \/ \E f \in JobFiles : ProcessFiles(f)
  \/ ParseCSVFile
  \/ MapOrdersToMonarch
  \/ SearchCustomers
  \/ \E resp \in Responses : ResolveGroup(resp)
  \/ GenerateJobImportFiles
  \/ \E f \in WipFiles : WipProcessFile(f)
  \/ ParseXLSFile
  \/ FilterValidOrders
  \/ WipSearchCustomers
  \/ \E resp \in Responses : WipResolveRow(resp)
  \/ GenerateWIPImportFile
  \/ \E f \in CustFiles : CustProcessFile(f)
  \/ LoadZip
  \/ \E k \in zip.pending : ReadZipEntry(k)
  \/ GenerateCustomerImportFile

Spec == Init /\ [][Next]_vars

(* ------------------- runs whose promises all settle -------------------- *)
\* The files of the runs followed to their end: no file, an unreadable one,
\* files of at most one row, a file of three rows in two invoice groups.
SettlingJobFiles ==
  { [customer |-> CsvFile(CustomerRows), order |-> o] :
      o \in {Unreadable} \cup { CsvFile(r) : r \in SeqsUpTo(OrderLines, 1) }
            \cup { CsvFile(r) : r \in { q \in [1..3 -> OrderLines] :
                                          /\ q[1].inv = q[2].inv /\ q[1] # q[2]
                                          /\ q[3].inv = <<"5","2","0">> } } }

SettlingWipFiles ==
  {Unreadable} \cup { Sheet(r) : r \in SeqsUpTo(WipRows, 1) }

SettlingCustFiles ==
  { f \in CustFiles : f.file = "zip" => \A k \in 1..Len(f.entries) :
                                          Len(f.entries[k].content.data) <= 1
                                          \/ f.entries[k] = UserEntry }

SettlingNext ==
  \/ \E f \in SettlingJobFiles : ProcessFiles(f)
  \/ ParseCSVFile
  \/ MapOrdersToMonarch
  \/ SearchCustomers
  \/ \E resp \in Responses : ResolveGroup(resp)
  \/ GenerateJobImportFiles
  \/ \E f \in SettlingWipFiles : WipProcessFile(f)
  \/ ParseXLSFile
  \/ FilterValidOrders
  \/ WipSearchCustomers
  \/ \E resp \in Responses : WipResolveRow(resp)
  \/ GenerateWIPImportFile
  \/ \E f \in SettlingCustFiles : CustProcessFile(f)
  \/ LoadZip
  \/ \E k \in zip.pending : ReadZipEntry(k)
  \/ GenerateCustomerImportFile

\* every file read and every customer lookup settles, and the continuation
\* of a settled promise runs: no step that can be taken is put off forever
FairSpec == Init /\ [][SettlingNext]_vars /\ WF_vars(SettlingNext)

(* ------------- two runs on the page's one MonarchImporter ------------- *)
\* The page keeps one MonarchImporter and its generate button stays enabled
\* during a run, so a click starts a second processFiles while the first is
\* suspended at an await. The variables of the job import are the run that
\* executes; other holds the locals of the suspended run.
RunsFiles ==
  { [customer |-> CsvFile(CustomerRows), order |-> o] :
      o \in { CsvFile(<< r >>) : r \in OrderLines } }

\* the run is suspended at an await (a file read, a customer lookup), or is
\* not executing
AtAwait(p) == p \in {"idle", "parsing", "awaiting", "done"}

\* the event loop runs the other run's continuation: the locals of the two
\* runs change places, the fields of the importer and the page stay
Resume ==
  /\ kind = "job"
  /\ AtAwait(pc)
  /\ other' = [pc |-> pc, files |-> files, orderData |-> orderData,
               ordersByInvoice |-> ordersByInvoice, gi |-> gi, mainJobs |-> mainJobs,
               subJobs |-> subJobs, lookups |-> lookups, result |-> result]
  /\ pc' = other.pc
  /\ files' = other.files
  /\ orderData' = other.orderData
  /\ ordersByInvoice' = other.ordersByInvoice
  /\ gi' = other.gi
  /\ mainJobs' = other.mainJobs
  /\ subJobs' = other.subJobs
  /\ lookups' = other.lookups
  /\ result' = other.result
  /\ UNCHANGED <<wipState, custState, kind, customerData, rejectedOrders, downloads,
                 localStorage, rawDescription, cleaned>>

RunsInit ==
  /\ kind = "job"
  /\ Idle
  /\ rawDescription = <<>>

RunsNext ==
  \/ \E f \in RunsFiles : ProcessFiles(f)
  \/ ParseCSVFile
  \/ MapOrdersToMonarch
  \/ SearchCustomers
  \/ \E resp \in Responses : ResolveGroup(resp)
  \/ GenerateJobImportFiles
  \/ Resume

RunsSpec == RunsInit /\ [][RunsNext]_vars

(* ------------- two runs of one importer, one after the other ----------- *)
\* The files of the runs: each of the two files present or not, order files
\* and sheets of one row.
AgainJobFiles ==
  { [customer |-> c, order |-> o] :
      c \in {Absent, CsvFile(CustomerRows)},
      o \in {Absent} \cup { CsvFile(<< r >>) : r \in OrderLines } }

AgainWipFiles == {Unreadable} \cup { Sheet(<< r >>) : r \in WipRows }

\* the first run has returned and processFiles / processFile is called
\* again on the same importer: the call's locals start afresh, the fields
\* of the importer (customerData, orderData, rejectedOrders, wipData,
\* filteredData, skippedRows, customerListData, userListData) and the page
\* are as the first run left them; other keeps what the first run was
\* given and what it gave
RunAgain ==
  /\ pc = "done"
  /\ other = NoRun
  /\ other' = [pc |-> "done", files |-> files, result |-> result,
               customerListData |-> customerListData,
               userListData |-> userListData]
  /\ pc' = "idle"
  /\ result' = NoResult
  /\ ordersByInvoice' = <<>>
  /\ gi' = 1
  /\ mainJobs' = <<>>
  /\ subJobs' = <<>>
  /\ lookups' = <<>>
  /\ UNCHANGED <<wipState, custState, kind, files, customerData, orderData,
                 rejectedOrders, downloads, localStorage, rawDescription, cleaned>>

AgainInit ==
  /\ kind \in {"job", "wip", "customer"}
  /\ Idle
  /\ rawDescription = <<>>

AgainNext ==
  \/ \E f \in AgainJobFiles : ProcessFiles(f)
  \/ ParseCSVFile
  \/ MapOrdersToMonarch
  \/ SearchCustomers
  \/ \E resp \in Responses : ResolveGroup(resp)
  \/ GenerateJobImportFiles
  \/ \E f \in AgainWipFiles : WipProcessFile(f)
  \/ ParseXLSFile
  \/ FilterValidOrders
  \/ WipSearchCustomers
  \/ \E resp \in Responses : WipResolveRow(resp)
  \/ GenerateWIPImportFile
  \/ \E f \in SettlingCustFiles : CustProcessFile(f)
  \/ LoadZip
  \/ \E k \in zip.pending : ReadZipEntry(k)
  \/ GenerateCustomerImportFile
  \/ RunAgain

AgainSpec == AgainInit /\ [][AgainNext]_vars

(* ------------------ cleanProductDescription on its own ----------------- *)
MaxTokens == 3

DescriptionTokens ==
  { <<"B","o","o","k","l","e","t"," ",":"," ","m","a","i","l","i","n","g">>, <<" ",":"," ","g","l","o","s","s">>, <<" ","-"," ","b","l","u","e">>, <<" ","-"," ","S","a","m","p","l","e">>, <<"S","h","i","p","p","i","n","g">>, <<"S","H","I","P","P","I","N","G">>, << " " >> }

RECURSIVE Concat(_)
Concat(parts) == IF Len(parts) = 0 THEN <<>> ELSE Head(parts) \o Concat(Tail(parts))

Descriptions == { Concat(parts) : parts \in SeqsUpTo(DescriptionTokens, MaxTokens) }

CleanProductDescription ==
  /\ ~cleaned.done
  /\ cleaned' = [done |-> TRUE, text |-> cleanProductDescription(rawDescription)]
  /\ UNCHANGED <<wipState, custState, jobState, kind, pc, files, rejectedOrders, gi, mainJobs,
                 lookups, downloads, localStorage, result, other, rawDescription>>

CleanInit ==
  /\ kind = "job"
  /\ Idle
  /\ rawDescription \in Descriptions

CleanNext == CleanProductDescription

CleanSpec == CleanInit /\ [][CleanNext]_vars

(* -------------------------------- claims ------------------------------- *)
\* the value bound to the field called name in a record's field list
FieldValue(fields, name) ==
  fields[CHOOSE k \in 1..Len(fields) : fields[k].name = name].value

\* line k of an encoded file whose lines are width characters plus a newline
FileLine(content, k, width) ==
  SubSeq(content, (k - 1) * (width + 1) + 1, (k - 1) * (width + 1) + width)

\* content is n lines of width characters, each followed by one newline
IsLinesOf(content, n, width) ==
  /\ Len(content) = n * (width + 1)
  /\ \A p \in 1..Len(content) : (content[p] = "\n") <=> (p % (width + 1) = 0)

\* the rows of the order file that carry the invoice number inv, up to row i
RowsUpTo(inv, i) == { r \in 1..i : orderData[r].inv = inv }

\* C1: for every invoice group of a job run and every filtered row of a WIP
\* run, once the run is over exactly one of these holds: the group (row) is
\* encoded, with a customer id of at most 8 characters in cust_ordered_by
\* and cust_billed_to, or exactly one rejected record with a non-empty
\* reason exists for it.
C1_ExactlyOneOfEncodedOrRejected ==
  pc = "done" =>
    /\ kind = "job" =>
         \A g \in 1..Len(ordersByInvoice) :
           LET inv == ordersByInvoice[g].invoiceNumber
               enc == { k \in 1..Len(mainJobs) : mainJobs[k].inv = inv }
               rej == { k \in 1..Len(rejectedOrders) :
                          rejectedOrders[k].invoiceNumber = inv }
           IN /\ Cardinality(enc) + Cardinality(rej) = 1
              /\ \A k \in enc :
                   /\ Len(FieldValue(mainJobs[k].fields, "cust_ordered_by")) <= 8
                   /\ Len(FieldValue(mainJobs[k].fields, "cust_billed_to")) <= 8
              /\ \A k \in rej : rejectedOrders[k].reason # <<>>
    /\ kind = "wip" =>
         \A r \in 1..Len(filteredData) :
           LET enc == { k \in 1..Len(mainJobs) : mainJobs[k].row = filteredData[r] }
               rej == { k \in 1..Len(rejectedOrders) :
                          rejectedOrders[k].row = filteredData[r] }
           IN /\ Cardinality(enc) + Cardinality(rej) = 1
              /\ \A k \in enc :
                   /\ Len(FieldValue(mainJobs[k].fields, "cust_ordered_by")) <= 8
                   /\ Len(FieldValue(mainJobs[k].fields, "cust_billed_to")) <= 8
              /\ \A k \in rej : rejectedOrders[k].reason # <<>>

\* C2: in the job import a lookup that finds nothing or fails does not abort
\* the batch: while the loop runs no result is returned, and once the run is
\* over the lookup has been issued once for every group, in order, every
\* group whose lookup succeeded is encoded, and the result is success: true.
C2_FailedLookupDoesNotAbortBatch ==
  kind = "job" =>
    /\ pc \in {"resolving", "awaiting"} => result = NoResult
    /\ (pc = "done" /\ Len(lookups) > 0) =>
         /\ result.success = TRUE
         /\ Len(lookups) = Len(ordersByInvoice)
         /\ \A g \in 1..Len(lookups) :
              /\ lookups[g].at = g
              /\ lookups[g].query = orderData[ordersByInvoice[g].orders[1]].cust
              /\ lookups[g].settled = "found" =>
                   Cardinality({ k \in 1..Len(mainJobs) :
                     mainJobs[k].inv = ordersByInvoice[g].invoiceNumber }) = 1

\* a finished job run in which a lookup failed, a lookup found nothing and a
\* later lookup succeeded
C2_Witness ==
  /\ kind = "job"
  /\ pc = "done"
  /\ Len(lookups) = 3
  /\ lookups[1].settled = "error"
  /\ lookups[2].settled = "none"
  /\ lookups[3].settled = "found"
  /\ Len(mainJobs) = 1

\* C3: in the job import every invoice number with N order lines whose lookup
\* succeeded gives exactly one main job, with a blank sub_job_id and made
\* from the first of the lines in file order, and N-1 sub-jobs made from the
\* following lines in file order and numbered 1..N-1; all N records carry
\* the job_id derived from the invoice number.
C3_GroupingInvariant ==
  kind = "job" =>
    \A g \in 1..Len(ordersByInvoice) :
      (g <= Len(lookups) /\ lookups[g].settled = "found") =>
        LET inv == ordersByInvoice[g].invoiceNumber
            N == Cardinality(RowsUpTo(inv, Len(orderData)))
            mains == SelectSeq(mainJobs, LAMBDA j : j.inv = inv)
            subs == SelectSeq(subJobs, LAMBDA j : j.inv = inv)
        IN /\ Len(mains) = 1
           /\ Len(subs) = N - 1
           /\ \A j \in {mains[1]} :
                /\ RowsUpTo(inv, j.row) = {j.row}
                /\ FieldValue(j.fields, "sub_job_id") = <<" ", " ", " ", " ">>
                /\ FieldValue(j.fields, "job_id") = JobId(inv)
                /\ FieldValue(j.fields, "job_description")
                     = Substring0(cleanProductDescription(orderData[j.row].prod), 254)
           /\ \A k \in 1..Len(subs) :
                /\ orderData[subs[k].row].inv = inv
                /\ Cardinality(RowsUpTo(inv, subs[k].row)) = k + 1
                /\ Trim(FieldValue(subs[k].fields, "sub_job_id")) = NatToStr(k)
                /\ FieldValue(subs[k].fields, "job_id") = JobId(inv)
                /\ FieldValue(subs[k].fields, "job_description")
                     = Substring0(cleanProductDescription(orderData[subs[k].row].prod), 254)

\* an invoice of three order lines, resolved: one main job and two sub-jobs
C3_Witness ==
  /\ kind = "job"
  /\ pc = "done"
  /\ Len(ordersByInvoice) = 1
  /\ Len(ordersByInvoice[1].orders) = 3
  /\ Len(mainJobs) = 1
  /\ Len(subJobs) = 2

\* C4: every line the customer encoder produces is exactly 758 characters
\* long and is followed by one newline, whatever the customer rows and the
\* field values are (over-long and empty ones included).
C4_CustomerLinesAre758 ==
  (kind = "customer" /\ pc = "done" /\ result.success) =>
    /\ Len(downloads) = 1
    /\ IsLinesOf(downloads[1].content, Len(customerListData), 758)
    /\ localStorage["monarch_customer_import"] = downloads[1].content

\* a finished customer run with one customer whose e-mail is longer than its
\* 80-character field and one customer with empty values
C4_Witness ==
  /\ kind = "customer"
  /\ pc = "done"
  /\ result.success
  /\ \E k \in 1..Len(customerListData) :
       Len(getUserEmail(userListData, CustomerUserId(customerListData[k])).v) > 80
  /\ \E k \in 1..Len(customerListData) :
       ~Truthy(Get(customerListData[k], <<"b","t","Z","i","p">>))

\* the encoded job files of a finished run: the main-jobs and the sub-jobs
\* download of a job run, the stored file of a WIP run, with their records
JobOutputs ==
  IF kind = "job"
  THEN << [content |-> downloads[1].content, jobs |-> mainJobs],
          [content |-> downloads[2].content, jobs |-> subJobs] >>
  ELSE << [content |-> localStorage["wipImportData"], jobs |-> mainJobs] >>

\* C5 (as stated): every line the job and WIP encoders produce is exactly
\* 561 characters long.
C5_JobLinesAre561 ==
  (kind \in {"job", "wip"} /\ pc = "done" /\ result.success) =>
    \A o \in 1..Len(JobOutputs) :
      IsLinesOf(JobOutputs[o].content, Len(JobOutputs[o].jobs), 561)

\* C5 (amended): every line the job and WIP encoders produce is exactly 560
\* characters long and is followed by one newline, 561 characters with the
\* newline counted, whatever the field values of the job record are.
C5_JobLinesAre560 ==
  (kind \in {"job", "wip"} /\ pc = "done" /\ result.success) =>
    \A o \in 1..Len(JobOutputs) :
      /\ IsLinesOf(JobOutputs[o].content, Len(JobOutputs[o].jobs), 560)
      /\ Len(JobOutputs[o].content) = 561 * Len(JobOutputs[o].jobs)

\* a finished job run that encoded a main job and a sub-job
C5_Witness ==
  /\ kind = "job"
  /\ pc = "done"
  /\ result.success
  /\ Len(mainJobs) >= 1
  /\ Len(subJobs) >= 1

\* columns pos..pos+len-1 of line hold the first len characters of value,
\* padded on the right with spaces
HoldsField(line, field) ==
  SubSeq(line, field.pos, field.pos + field.len - 1)
    = PadEnd(Substring0(field.value, field.len), field.len, " ")

\* every {value, pos, len} field of the record is in its columns of the line
HoldsFields(line, fields) ==
  \A k \in 1..Len(fields) :
    fields[k].name # "_metadata" => HoldsField(line, fields[k])

\* the records a finished customer run encoded
CustomerRecords == mapCustomerListToMonarch(customerListData, userListData)

\* C6: for every record the customer, job or WIP mapping produced and every
\* field {value, pos, len} of it, columns pos..pos+len-1 of the encoded line
\* hold the first len characters of the value, padded on the right with
\* spaces when the value is shorter.
C6_FieldsInTheirColumns ==
  (pc = "done" /\ result.success) =>
    IF kind = "customer"
    THEN \A k \in 1..Len(CustomerRecords) :
           HoldsFields(FileLine(downloads[1].content, k, 758),
                       CustomerRecords[k].fields)
    ELSE \A o \in 1..Len(JobOutputs) :
           \A k \in 1..Len(JobOutputs[o].jobs) :
             HoldsFields(FileLine(JobOutputs[o].content, k, 560),
                         JobOutputs[o].jobs[k].fields)

\* a finished job run that encoded a date_promised of 11 characters,
\* "NaN/NaN/NaN", into its field of 10
C6_Witness ==
  /\ kind = "job"
  /\ pc = "done"
  /\ result.success
  /\ \E k \in 1..Len(mainJobs) :
       Len(FieldValue(mainJobs[k].fields, "date_promised")) > 10

\* the order-id cell filterValidOrders read in row i of the sheet
OrderIdOf(i) == findColumn(files.rows[i], orderIdColumns)

\* the rows of the sheet (from 1) that skippedRows records
SkippedSet == { skippedRows[k].rowNumber - 1 : k \in 1..Len(skippedRows) }

FilteredSet == { filteredData[k] : k \in 1..Len(filteredData) }

\* filterValidOrders has run
Filtered == kind = "wip" /\ pc \in {"resolving", "awaiting", "done"}
                          /\ Len(wipData) > 0

\* C7 (as stated): filterValidOrders routes a row to skippedRows if and only
\* if its order-id value fails /^\d{4,7}$/ and to filteredData otherwise.
C7_SkippedIffValueFailsPattern ==
  Filtered =>
    \A i \in 1..Len(wipData) :
      /\ i \in SkippedSet <=> ~MatchesOrderIdPattern(OrderIdOf(i).v)
      /\ i \in FilteredSet <=> MatchesOrderIdPattern(OrderIdOf(i).v)

\* C7 (amended): filterValidOrders routes a row to skippedRows if and only if
\* its order id is missing, empty or zero, or its string form with the
\* surrounding whitespace removed fails /^\d{4,7}$/, and to filteredData
\* otherwise; every row lands in exactly one of the two, and no skipped row
\* is ever passed to searchCustomers.
C7_SkippedIffTrimmedIdFailsPattern ==
  Filtered =>
    /\ \A i \in 1..Len(wipData) :
         LET id == OrderIdOf(i)
             fails == \/ id.v = <<>>
                      \/ (id.t = "number" /\ id.v = <<"0">>)
                      \/ ~(Len(Trim(id.v)) \in 4..7 /\ AllDigits(Trim(id.v)))
         IN /\ i \in SkippedSet <=> fails
            /\ i \in FilteredSet <=> ~fails
    /\ Len(skippedRows) + Len(filteredData) = Len(wipData)
    /\ \A l \in 1..Len(lookups) :
         lookups[l].at \in FilteredSet /\ lookups[l].at \notin SkippedSet

\* a WIP run that skipped one row, kept a row whose order id has blanks
\* around its digits, and looked that row's customer up
C7_Witness ==
  /\ Filtered
  /\ Len(skippedRows) = 1
  /\ Len(filteredData) = 1
  /\ OrderIdOf(filteredData[1]).v # Trim(OrderIdOf(filteredData[1]).v)
  /\ Len(lookups) = 1

\* the keys of the failure result
FailureKeys == {"success", "message"}

\* C8 (as stated): every orchestrator call resolves to a result that is
\* either {success: true, message, summary} or {success: false, message}.
C8_ResultIsSuccessSummaryOrFailure ==
  pc = "done" =>
    \/ result.success = TRUE /\ DOMAIN result = {"success", "message", "summary"}
    \/ result.success = FALSE /\ DOMAIN result = FailureKeys

\* C8 (amended): every orchestrator call resolves to a result that holds
\* success and message: {success: false, message} on failure; on success
\* {success: true, message, summary} from CustomerListImporter.processFile,
\* {success: true, message, rejectedCount} from MonarchImporter.processFiles
\* and {success: true, message, recordCount, skippedCount, skippedRows,
\* rejectedCount, rejectedOrders} from WIPImporter.processFile. The promise
\* never rejects: until it resolves no result exists, and whatever error
\* occurs the result is of the failure shape.
C8_ResultIsDiscriminated ==
  /\ pc # "done" => result = NoResult
  /\ pc = "done" =>
       /\ FailureKeys \subseteq DOMAIN result
       /\ result.success \in BOOLEAN
       /\ result.message # <<>>
       /\ ~result.success => DOMAIN result = FailureKeys
       /\ result.success =>
            DOMAIN result =
              FailureKeys \cup
                (IF kind = "customer" THEN {"summary"}
                 ELSE IF kind = "job" THEN {"rejectedCount"}
                 ELSE {"recordCount", "skippedCount", "skippedRows",
                       "rejectedCount", "rejectedOrders"})

\* a WIP run that ended on an exception thrown while it mapped a row, the
\* TypeError of a project name that is no string: the failure shape
C8_Witness ==
  /\ kind = "wip"
  /\ pc = "done"
  /\ Len(lookups) > 0
  /\ lookups[Len(lookups)].settled = "found"
  /\ ~result.success

\* C9: a WIP run whose spreadsheet parsed into at least one row returns
\* success: true together with its skipped and rejected counts, however many
\* rows are skipped or rejected, all of them included.
C9_ParsedWipRunSucceeds ==
  (kind = "wip" /\ pc = "done" /\ Len(wipData) >= 1) =>
    /\ result.success = TRUE
    /\ {"skippedCount", "rejectedCount"} \subseteq DOMAIN result
    /\ result.skippedCount = Len(skippedRows)
    /\ result.rejectedCount = Len(rejectedOrders)

\* the run's input holds no data row, or cannot be read
EmptyInput ==
  IF kind = "job"
  THEN files.order.file = "unreadable"
       \/ (files.order.file = "csv" /\ files.order.rows = <<>>)
  ELSE IF kind = "wip"
  THEN files.file = "unreadable" \/ files.rows = <<>>
  ELSE \/ files.file = "unreadable"
       \/ \E k \in 1..Len(files.entries) :
            /\ IsCustomerFile(files.entries[k])
            /\ files.entries[k].content.data = <<>>

\* C10: for each importer a run whose input file is empty or unparseable
\* returns success: false at once and produces no partial output: nothing is
\* looked up, encoded, stored for the viewer or downloaded.
C10_EmptyInputFailsWithoutOutput ==
  (pc = "done" /\ EmptyInput) =>
    /\ result.success = FALSE
    /\ lookups = <<>>
    /\ downloads = <<>>
    /\ DOMAIN localStorage = {}

\* the first row of the order file that carries the invoice number inv
FirstRow(inv) ==
  CHOOSE r \in RowsUpTo(inv, Len(orderData)) :
    \A q \in RowsUpTo(inv, Len(orderData)) : r <= q

\* C11: the job files list their records in stable input order: the main-job
\* lines and the rejected records are ordered by the first appearance of
\* their invoice number in the order file, the sub-job lines of an invoice
\* follow the file order of their rows, and line k of a file encodes the
\* k-th record.
C11_RecordsInInputOrder ==
  (kind = "job" /\ pc = "done" /\ result.success) =>
    /\ \A a, b \in 1..Len(mainJobs) :
         a < b => FirstRow(mainJobs[a].inv) < FirstRow(mainJobs[b].inv)
    /\ \A a, b \in 1..Len(rejectedOrders) :
         a < b => FirstRow(rejectedOrders[a].invoiceNumber)
                    < FirstRow(rejectedOrders[b].invoiceNumber)
    /\ \A a, b \in 1..Len(subJobs) :
         (a < b /\ subJobs[a].inv = subJobs[b].inv) => subJobs[a].row < subJobs[b].row
    /\ \A k \in 1..Len(mainJobs) :
         FileLine(downloads[1].content, k, 560) = JobLine(mainJobs[k].fields)
    /\ \A k \in 1..Len(subJobs) :
         FileLine(downloads[2].content, k, 560) = JobLine(subJobs[k].fields)

\* A reader of CSV text under the standard quoting rules: a field that opens
\* with a double quote runs to its closing quote, a doubled quote inside it
\* reading as one quote; any other field runs to the next comma or line end.
QuotesIn(text, from, to) == Cardinality({ p \in from..to : text[p] = "\"" })

\* the closing quote of the quoted field that opens at position i (0: none)
ClosingQuote(text, i) ==
  LET ends == { j \in (i + 1)..Len(text) :
                  /\ text[j] = "\""
                  /\ QuotesIn(text, i + 1, j - 1) % 2 = 0
                  /\ (j = Len(text) \/ text[j + 1] # "\"") }
  IN IF ends = {} THEN 0 ELSE CHOOSE j \in ends : \A q \in ends : j <= q

\* the first comma or line end at or after position i (Len + 1: none)
NextDelimiter(text, i) ==
  LET ends == { j \in i..Len(text) : text[j] \in {",", "\n"} }
  IN IF ends = {} THEN Len(text) + 1 ELSE CHOOSE j \in ends : \A q \in ends : j <= q

RECURSIVE Undouble(_)
Undouble(s) ==
  IF Len(s) = 0 THEN <<>>
  ELSE IF Len(s) >= 2 /\ s[1] = "\"" /\ s[2] = "\""
       THEN <<"\"">> \o Undouble(SubSeq(s, 3, Len(s)))
       ELSE <<Head(s)>> \o Undouble(Tail(s))

\* the field that starts at position i, and the position of its delimiter
CsvField(text, i) ==
  LET close == IF i <= Len(text) /\ text[i] = "\"" THEN ClosingQuote(text, i) ELSE 0
  IN IF close > 0
     THEN LET stop == NextDelimiter(text, close + 1)
          IN [value |-> Undouble(SubSeq(text, i + 1, close - 1))
                          \o SubSeq(text, close + 1, stop - 1),
              stop |-> stop]
     ELSE LET stop == NextDelimiter(text, i)
          IN [value |-> SubSeq(text, i, stop - 1), stop |-> stop]

\* the record that starts at position i, and the position after its line end
RECURSIVE CsvRecord(_, _)
CsvRecord(text, i) ==
  LET f == CsvField(text, i)
  IN IF f.stop <= Len(text) /\ text[f.stop] = ","
     THEN LET rest == CsvRecord(text, f.stop + 1)
          IN [fields |-> << f.value >> \o rest.fields, next |-> rest.next]
     ELSE [fields |-> << f.value >>, next |-> f.stop + 1]

RECURSIVE ReadCsv(_, _)
ReadCsv(text, i) ==
  IF i > Len(text) THEN <<>>
  ELSE LET r == CsvRecord(text, i)
       IN << r.fields >> \o ReadCsv(text, r.next)

\* the seven values of a rejected record in report order
RecordFields(order) ==
  << order.invoiceNumber, order.customerName, order.productName, order.poNumber,
     order.dueDate, order.amount, order.reason >>

\* the rejection report a finished job run downloaded
RejectionReport == downloads[3].content

HasRejectionReport ==
  kind = "job" /\ pc = "done" /\ Len(downloads) = 3

\* C12: the rejection report, read back under the standard CSV quoting
\* rules, has after its header row one row per rejected record in
\* accumulation order, each of exactly seven fields equal to the record's
\* invoice number, customer name, product, PO number, due date, amount and
\* reason.
C12_ReportRowsReadBackAsRecords ==
  HasRejectionReport =>
    LET rows == ReadCsv(RejectionReport, 1)
    IN /\ Len(rows) = Len(rejectedOrders) + 1
       /\ rows[1] = RejectionHeaders
       /\ \A k \in 1..Len(rejectedOrders) : rows[k + 1] = RecordFields(rejectedOrders[k])

\* the part of C12 the code keeps: the four escaped fields read back intact
\* whenever the three unescaped ones hold no comma, quote or line break
PlainText(s) == \A p \in 1..Len(s) : s[p] \notin {",", "\"", "\n"}

C12_EscapedFieldsReadBack ==
  (HasRejectionReport
     /\ \A k \in 1..Len(rejectedOrders) :
          /\ PlainText(rejectedOrders[k].invoiceNumber)
          /\ PlainText(rejectedOrders[k].amount))
  => LET rows == ReadCsv(RejectionReport, 1)
     IN /\ Len(rows) = Len(rejectedOrders) + 1
        /\ \A k \in 1..Len(rejectedOrders) : rows[k + 1] = RecordFields(rejectedOrders[k])

\* the derivation C13 states: the invoice number left-padded with zeros to
\* 8 characters, its leading zeros then replaced by spaces
ZeroPaddedJobId(invoiceNumber) ==
  LET padded == Substring0(PadStart(invoiceNumber, 8, "0"), 8)
      z == LeadingZeros(padded)
  IN Repeat(" ", z) \o SubSeq(padded, z + 1, Len(padded))

\* C13: the job_id of every job record is its invoice number left-padded
\* with zeros to 8 characters with the leading zeros replaced by spaces, and
\* is exactly 8 characters long.
C13_JobIdIsZeroPaddedInvoice ==
  (kind = "job" /\ pc = "done") =>
    \A k \in 1..Len(mainJobs) :
      /\ Len(FieldValue(mainJobs[k].fields, "job_id")) = 8
      /\ FieldValue(mainJobs[k].fields, "job_id") = ZeroPaddedJobId(mainJobs[k].inv)

\* the half of C13 the code keeps: a job_id is always 8 characters long
C13_JobIdIsEightCharacters ==
  kind = "job" =>
    \A k \in 1..Len(mainJobs) : Len(FieldValue(mainJobs[k].fields, "job_id")) = 8

\* what C14 states of a description: with no " : ", or "Shipping" in any
\* case, the description; otherwise its prefix, " : ", and everything after
\* the first " : " cut at " - Sample", or else at the first " - "
StatedDescription(d) ==
  IF ~Includes(d, S_Colon) \/ ToLowerCase(d) = S_shipping THEN d
  ELSE LET remainder == AfterFirst(d, S_Colon)
       IN SplitHead(d, S_Colon) \o S_Colon
          \o (IF Includes(remainder, S_DashSample) THEN SplitHead(remainder, S_DashSample)
              ELSE SplitHead(remainder, S_Dash))

\* C14: cleanProductDescription returns a description with no " : ", or
\* equal to "Shipping" ignoring case, unchanged, and otherwise the prefix,
\* " : " and the remainder after the first " : " truncated at " - Sample" if
\* the remainder contains it, else at its first " - ".
C14_RemainderIsTruncated ==
  cleaned.done => cleaned.text = StatedDescription(rawDescription)

\* the part of C14 the code keeps: a description with no " : ", or equal to
\* "Shipping" ignoring case, comes back unchanged
C14_PlainDescriptionUnchanged ==
  (cleaned.done /\ (~Includes(rawDescription, S_Colon)
                    \/ ToLowerCase(rawDescription) = S_shipping))
    => cleaned.text = rawDescription

\* C15: in every successful WIP run the input rows number recordCount +
\* skippedCount + rejectedCount, the generated file has recordCount lines,
\* and skippedCount and rejectedCount are the lengths of the returned
\* skippedRows and rejectedOrders.
C15_WipCountsAddUp ==
  (kind = "wip" /\ pc = "done" /\ result.success) =>
    /\ Len(wipData) = result.recordCount + result.skippedCount + result.rejectedCount
    /\ IsLinesOf(localStorage["wipImportData"], result.recordCount, JobLineLength)
    /\ result.skippedCount = Len(result.skippedRows)
    /\ result.rejectedCount = Len(result.rejectedOrders)

\* a successful WIP run that encoded a row and skipped or rejected another
C15_Witness ==
  /\ kind = "wip" /\ pc = "done" /\ result.success
  /\ result.recordCount > 0
  /\ result.skippedCount + result.rejectedCount > 0
  /\ Len(localStorage["wipImportData"]) > 0

\* the is-taxable flag of a customer row is the string 'Y'
TaxableFlagIsY(customer) ==
  /\ HasKey(customer, <<"i","s","T","a","x","a","b","l","e">>)
  /\ Get(customer, <<"i","s","T","a","x","a","b","l","e">>).t = "string"
  /\ Get(customer, <<"i","s","T","a","x","a","b","l","e">>).v = <<"Y">>

\* the AR-Tax-Code columns (382..391) of line k of the customer file
TaxCodeColumns(k) ==
  SubSeq(FileLine(downloads[1].content, k, CustomerLineLength), 382, 391)

\* C16: the AR-Tax-Code of a customer is '1' exactly when the row's
\* is-taxable flag equals 'Y', and '3' for every other value and for a
\* missing flag, in the record and in its columns of the encoded line.
C16_TaxCodeFollowsFlag ==
  (kind = "customer" /\ pc = "done" /\ result.success) =>
    \A k \in 1..Len(customerListData) :
      LET code == IF TaxableFlagIsY(customerListData[k]) THEN <<"1">> ELSE <<"3">>
      IN /\ FieldValue(CustomerRecords[k].fields, "AR-Tax-Code") = code
         /\ TaxCodeColumns(k) = PadEnd(code, 10, " ")

\* a finished customer run with a taxable customer and one whose flag is
\* another value or missing
C16_Witness ==
  /\ kind = "customer" /\ pc = "done" /\ result.success
  /\ \E k \in 1..Len(customerListData) :
       TaxableFlagIsY(customerListData[k]) /\ TaxCodeColumns(k)[1] = "1"
  /\ \E k \in 1..Len(customerListData) :
       ~TaxableFlagIsY(customerListData[k]) /\ TaxCodeColumns(k)[1] = "3"

\* the groups this run saw rejected: its lookups that failed or found nothing
OwnRejections ==
  { l \in 1..Len(lookups) : lookups[l].settled \in {"error", "none"} }

\* C17: when a second processFiles call is started on the page's importer
\* before the first has finished its lookups, each run's result and counts
\* contain only that run's own records: a finished run reports as many
\* rejections as lookups of its own failed or found nothing.
C17_RunsKeepTheirOwnRecords ==
  (kind = "job" /\ pc = "done" /\ result.success) =>
    result.rejectedCount = Cardinality(OwnRejections)

\* the run is reading or decoding its input: a CSV or spreadsheet file, or
\* the ZIP archive and its entries
Parsing == pc \in {"parsing", "loading", "reading"}

\* C18: a run can fail only while parsing: once parsing has succeeded no
\* later step (filtering, grouping, lookup, encoding, reporting) ends the
\* run with success: false.
C18_FailureOnlyFromParsing ==
  [][(result = NoResult /\ result' # NoResult /\ ~result'.success) => Parsing]_vars

\* the part of C18 the job and customer imports keep: past parsing they
\* never fail
C18_JobAndCustomerFailOnlyInParsing ==
  [][(kind # "wip" /\ result = NoResult /\ result' # NoResult /\ ~result'.success)
       => Parsing]_vars

\* C19: a job run calls searchCustomers exactly once per invoice group, in
\* group order, with the customer name of the group's first line, and the
\* customer id it resolved is the same on the main job and on every sub-job
\* of the invoice.
C19_OneLookupPerInvoiceGroup ==
  kind = "job" =>
    /\ Len(lookups) <= Len(ordersByInvoice)
    /\ (pc = "done" /\ result.success) => Len(lookups) = Len(ordersByInvoice)
    /\ \A l \in 1..Len(lookups) :
         /\ lookups[l].at = l
         /\ lookups[l].query = orderData[ordersByInvoice[l].orders[1]].cust
    /\ \A s \in 1..Len(subJobs) :
         \E m \in 1..Len(mainJobs) :
           /\ mainJobs[m].inv = subJobs[s].inv
           /\ FieldValue(subJobs[s].fields, "cust_ordered_by")
                = FieldValue(mainJobs[m].fields, "cust_ordered_by")
           /\ FieldValue(subJobs[s].fields, "cust_billed_to")
                = FieldValue(mainJobs[m].fields, "cust_billed_to")
           /\ FieldValue(mainJobs[m].fields, "cust_ordered_by")
                = FieldValue(mainJobs[m].fields, "cust_billed_to")

\* a finished job run with an invoice of two lines that name the customer
\* differently: one lookup, a main job and a sub-job with a resolved id
C19_Witness ==
  /\ kind = "job" /\ pc = "done" /\ result.success
  /\ Len(subJobs) > 0
  /\ Len(lookups) < Len(orderData)
  /\ FieldValue(subJobs[1].fields, "cust_ordered_by") # <<>>
  /\ \E g \in 1..Len(ordersByInvoice) :
       /\ Len(ordersByInvoice[g].orders) > 1
       /\ orderData[ordersByInvoice[g].orders[1]].cust
            # orderData[ordersByInvoice[g].orders[2]].cust

\* at most one lookup per invoice group of a job run and per filtered row of
\* a WIP run, hence per input record
LookupsBounded ==
  /\ kind = "job" => Len(lookups) <= Len(ordersByInvoice) /\ Len(lookups) <= Len(orderData)
  /\ kind = "wip" => Len(lookups) <= Len(filteredData) /\ Len(lookups) <= Len(wipData)
  /\ kind = "customer" => Len(lookups) = 0

\* C20: once a run has started and every file read and lookup settles, the
\* run eventually returns a result, having issued at most one lookup per
\* input record or group.
C20_StartedRunReturns ==
  /\ [] LookupsBounded
  /\ (pc # "idle") ~> (pc = "done" /\ result # NoResult)

\* a run that returned after it had awaited two lookups
C20_Witness ==
  /\ pc = "done" /\ result # NoResult
  /\ Len(lookups) >= 2
  /\ \A l \in 1..Len(lookups) : lookups[l].settled # "pending"

\* the order id of the sheet row that the j-th WIP job stands for, as
\* mapToMonarchFormat reads it
JobOrderId(j) == Trim(OrderIdOf(mainJobs[j].row).v)

\* C21: in a WIP run every job_id is 'N', then all the 4 to 7 digits of the
\* row's order id, then blanks up to 8 characters; jobs of distinct order
\* ids have distinct job_ids, and the encoded line carries the job_id in
\* its first 8 columns.
C21_WipJobIdIsNThenOrderId ==
  kind = "wip" =>
    /\ \A j \in 1..Len(mainJobs) :
         LET jobId == FieldValue(mainJobs[j].fields, "job_id")
         IN /\ Len(JobOrderId(j)) \in 4..7
            /\ AllDigits(JobOrderId(j))
            /\ Len(jobId) = 8
            /\ jobId = <<"N">> \o JobOrderId(j) \o Repeat(" ", 7 - Len(JobOrderId(j)))
            /\ (pc = "done" /\ result.success) =>
                 SubSeq(FileLine(localStorage["wipImportData"], j, JobLineLength), 1, 8)
                   = jobId
    /\ \A j, k \in 1..Len(mainJobs) :
         JobOrderId(j) # JobOrderId(k) =>
           FieldValue(mainJobs[j].fields, "job_id")
             # FieldValue(mainJobs[k].fields, "job_id")

\* a finished WIP run with two jobs of distinct order ids, one of 7 digits
C21_Witness ==
  /\ kind = "wip" /\ pc = "done" /\ result.success
  /\ Len(mainJobs) = 2
  /\ JobOrderId(1) # JobOrderId(2)
  /\ \E j \in 1..2 : Len(JobOrderId(j)) = 7

\* new Date(text) is an Invalid Date
Unparseable(text) == ~ParseDate(text).valid

\* C22: in the job and WIP imports a due or shipping date that cannot be
\* parsed gives the empty string in the job's date field and in the
\* rejected record.
C22_UnparseableDateGivesEmpty ==
  /\ kind = "job" =>
       /\ \A j \in 1..Len(mainJobs) :
            /\ Unparseable(orderData[mainJobs[j].row].due) =>
                 FieldValue(mainJobs[j].fields, "date_promised") = <<>>
            /\ Unparseable(orderData[mainJobs[j].row].ship) =>
                 FieldValue(mainJobs[j].fields, "ship_date") = <<>>
       /\ \A r \in 1..Len(rejectedOrders) :
            Unparseable(orderData[FirstRow(rejectedOrders[r].invoiceNumber)].due) =>
              rejectedOrders[r].dueDate = <<>>
  /\ kind = "wip" =>
       /\ \A j \in 1..Len(mainJobs) :
            LET due == findColumn(files.rows[mainJobs[j].row], dueDateColumns)
            IN (due.t = "string" /\ Unparseable(due.v)) =>
                 FieldValue(mainJobs[j].fields, "date_promised") = <<>>
       /\ \A r \in 1..Len(rejectedOrders) :
            LET due == findColumn(files.rows[rejectedOrders[r].row], dueDateColumns)
            IN (due.t = "string" /\ Unparseable(due.v)) =>
                 rejectedOrders[r].dueDate = <<>>

\* C22, the WIP import alone: WIPImporter.formatDate returns '' for an
\* Invalid Date
C22_WipUnparseableDateGivesEmpty ==
  kind = "wip" => C22_UnparseableDateGivesEmpty

\* columns pos..pos+len-1 of line are all spaces
IsBlank(line, field) ==
  \A c \in field.pos..(field.pos + field.len - 1) : line[c] = " "

\* the first characters of the field's columns are those of its value
StartsWithValue(line, field) ==
  \A i \in 1..Min(field.len, Len(field.value)) :
    line[field.pos + i - 1] = field.value[i]

\* C23: in every encoded job and WIP line a field with a non-empty value,
\* the text '0' included, is written to its columns (column 440 shows the
\* '0' of shop_floor_active) and a field with an empty value leaves its
\* columns blank; in every encoded customer line every field is written.
C23_TruthyValuesAreWritten ==
  (pc = "done" /\ result.success) =>
    IF kind = "customer"
    THEN \A k \in 1..Len(CustomerRecords) :
           \A f \in 1..Len(CustomerRecords[k].fields) :
             StartsWithValue(FileLine(downloads[1].content, k, CustomerLineLength),
                             CustomerRecords[k].fields[f])
    ELSE \A o \in 1..Len(JobOutputs) :
           \A k \in 1..Len(JobOutputs[o].jobs) :
             LET line == FileLine(JobOutputs[o].content, k, JobLineLength)
                 fields == JobOutputs[o].jobs[k].fields
             IN /\ line[440] = "0"
                /\ \A f \in 1..Len(fields) :
                     fields[f].name # "_metadata" =>
                       IF fields[f].value = <<>>
                       THEN IsBlank(line, fields[f])
                       ELSE StartsWithValue(line, fields[f])

\* a finished job run that encoded a record with the quantity '0' and an
\* empty purchase order number
C23_Witness ==
  /\ kind = "job" /\ pc = "done" /\ result.success
  /\ \E o \in 1..Len(JobOutputs) :
       \E k \in 1..Len(JobOutputs[o].jobs) :
         /\ FieldValue(JobOutputs[o].jobs[k].fields, "qty_ordered") = S_0
         /\ FieldValue(JobOutputs[o].jobs[k].fields, "po_number") = <<>>

\* C24: once the decoder has created the rows of an input file, no step of
\* a run changes a key or a value of any of them.
C24_RowsAreNeverModified ==
  [][/\ wipData # <<>> => wipData' = wipData
     /\ orderData # <<>> => orderData' = orderData
     /\ customerData # <<>> => customerData' = customerData
     /\ customerListData # <<>> => customerListData' = customerListData
     /\ userListData # <<>> => userListData' = userListData]_vars

\* C24, the job and customer imports alone: their rows stay as decoded
C24_JobAndCustomerRowsAreNeverModified ==
  [][/\ orderData # <<>> => orderData' = orderData
     /\ customerData # <<>> => customerData' = customerData
     /\ customerListData # <<>> => customerListData' = customerListData
     /\ userListData # <<>> => userListData' = userListData]_vars

\* the lines of the generated customer file whose E-Mail-Address field,
\* columns 302 to 381, is not blank
LinesWithEmail ==
  { k \in 1..Len(customerListData) :
      \E c \in 302..381 :
        FileLine(downloads[1].content, k, CustomerLineLength)[c] # " " }

\* C25: after a successful customer import summary.customers and
\* summary.users are the numbers of parsed customer and user rows, and
\* summary.emailsMatched is the number of encoded lines whose
\* E-Mail-Address field is not blank.
C25_SummaryCountsBackfilledEmails ==
  (kind = "customer" /\ pc = "done" /\ result.success) =>
    /\ result.summary.customers = Len(customerListData)
    /\ result.summary.users = Len(userListData)
    /\ result.summary.emailsMatched = Cardinality(LinesWithEmail)

\* C25, the row counts alone, and emailsMatched as a lower bound
C25_SummaryCountsRows ==
  (kind = "customer" /\ pc = "done" /\ result.success) =>
    /\ result.summary.customers = Len(customerListData)
    /\ result.summary.users = Len(userListData)
    /\ result.summary.emailsMatched <= Cardinality(LinesWithEmail)

\* the second run on the importer has returned
SecondRunDone == other # NoRun /\ pc = "done"

\* the rows of the importer's sheet are the rows of the file of this run,
\* and the kept, skipped and rejected records stand for rows of it
WipRecordsFromThisFile ==
  /\ Len(wipData) = Len(files.rows)
  /\ \A i \in 1..Len(wipData) :
       SubSeq(wipData[i], 1, Len(files.rows[i])) = files.rows[i]
  /\ \A k \in 1..Len(filteredData) : filteredData[k] \in 1..Len(files.rows)
  /\ \A k \in 1..Len(skippedRows) :
       /\ skippedRows[k].rowNumber - 1 \in 1..Len(files.rows)
       /\ skippedRows[k].customerName
            = findColumn(files.rows[skippedRows[k].rowNumber - 1], customerNameColumns)
  /\ \A r \in 1..Len(rejectedOrders) :
       /\ rejectedOrders[r].row \in FilteredSet
       /\ rejectedOrders[r].customerName
            = findColumn(files.rows[rejectedOrders[r].row], customerNameColumns)

\* C26: when the second of two runs on one importer has returned, its job
\* records and rejected records come from the order file and the customer
\* file of the second call, and the kept, skipped and rejected rows of a
\* WIP run come from the second call's sheet.
C26_SecondRunHoldsOnlyItsInput ==
  SecondRunDone =>
    /\ kind = "job" =>
         /\ (mainJobs # <<>> \/ subJobs # <<>> \/ rejectedOrders # <<>>) =>
              (files.order.file = "csv" /\ orderData = files.order.rows)
         /\ \A j \in 1..Len(mainJobs) :
              FieldValue(mainJobs[j].fields, "contact_name") # <<>> =>
                (files.customer.file = "csv" /\ customerData = files.customer.rows)
    /\ (kind = "wip" /\ files.file = "xls") => WipRecordsFromThisFile

\* C26, for second calls that supply both files, and for WIP runs that
\* reach the mapping
C26_SecondRunWithAllFilesHoldsOnlyItsInput ==
  (/\ SecondRunDone
   /\ kind = "job" => (files.customer.file = "csv" /\ files.order.file = "csv")
   /\ kind = "wip" => Len(filteredData) > 0) =>
    C26_SecondRunHoldsOnlyItsInput

\* a customer import has returned for the second time, given the archive
\* the first was given
SameArchiveAgain ==
  kind = "customer" /\ other # NoRun /\ pc = "done" /\ files = other.files

\* C27: two customer imports of one archive end with the same customer
\* rows, the same user rows and the same result, in whatever order the
\* reads of the archive's CSV entries settle.
C27_ArchiveDecidesTheResult ==
  SameArchiveAgain =>
    /\ customerListData = other.customerListData
    /\ userListData = other.userListData
    /\ result = other.result

\* C27, for archives with at most one CSV that is not the user list
C27_OneCustomerCsvDecidesTheResult ==
  (/\ SameArchiveAgain
   /\ files.file = "zip"
   /\ Cardinality({ k \in 1..Len(files.entries) :
                      ~files.entries[k].dir /\ IsCustomerFile(files.entries[k])
                      /\ EndsWith(ToLowerCase(files.entries[k].filename),
                                  <<".","c","s","v">>) }) <= 1) =>
    C27_ArchiveDecidesTheResult

\* the records of a job run, main jobs and sub-jobs
JobRecords == { mainJobs[j] : j \in 1..Len(mainJobs) }
                \cup { subJobs[j] : j \in 1..Len(subJobs) }

\* C28: in a job run the records of two different invoice numbers never
\* share a job_id.
C28_DistinctInvoicesDistinctJobIds ==
  kind = "job" =>
    \A a, b \in JobRecords :
      a.inv # b.inv => FieldValue(a.fields, "job_id") # FieldValue(b.fields, "job_id")

\* C28, for invoice numbers of at most 8 characters that hold a character
\* other than '0'
C28_ShortInvoicesDistinctJobIds ==
  kind = "job" =>
    \A a, b \in JobRecords :
      (/\ a.inv # b.inv
       /\ Len(a.inv) <= 8 /\ Len(b.inv) <= 8
       /\ \E i \in 1..Len(a.inv) : a.inv[i] # "0"
       /\ \E i \in 1..Len(b.inv) : b.inv[i] # "0") =>
        FieldValue(a.fields, "job_id") # FieldValue(b.fields, "job_id")

\* C29: cleanProductDescription is idempotent: cleaning the cleaned text
\* gives the cleaned text again.
C29_CleanIsIdempotent ==
  cleaned.done => cleanProductDescription(cleaned.text) = cleaned.text

\* C29, for descriptions whose part after the first ' : ' has no ' - ' before
\* a ' - Sample'
C29_CleanIsIdempotentWithoutDashBeforeSample ==
  (/\ cleaned.done
   /\ Includes(rawDescription, S_Colon)
   /\ Includes(SplitSecond(rawDescription, S_Colon), S_DashSample)
      => ~Includes(SplitHead(SplitSecond(rawDescription, S_Colon), S_DashSample), S_Dash))
    => cleanProductDescription(cleaned.text) = cleaned.text

\* the fields of a record in the opposite order
Reverse(fields) == [f \in 1..Len(fields) |-> fields[Len(fields) + 1 - f]]

\* the entries of a record that have a place in the line
LayoutFields(fields) == { f \in 1..Len(fields) : fields[f].name # "_metadata" }

\* every range [pos, pos + len - 1] lies inside a buffer of width columns
RangesFit(fields, width) ==
  \A f \in LayoutFields(fields) :
    fields[f].pos >= 1 /\ fields[f].pos + fields[f].len - 1 <= width

\* no two ranges [pos, pos + len - 1] share a column
RangesDisjoint(fields) ==
  \A f, g \in LayoutFields(fields) :
    f # g => \/ fields[f].pos + fields[f].len - 1 < fields[g].pos
             \/ fields[g].pos + fields[g].len - 1 < fields[f].pos

\* C30: in every record of the customer, job and WIP layouts the field
\* ranges [pos, pos+len-1] are pairwise disjoint and lie inside the encoder's
\* line buffer, and the encoded line is the one the encoder gives when it
\* writes the fields in the opposite order.
C30_FieldRangesAreDisjointAndFit ==
  (pc = "done" /\ result.success) =>
    IF kind = "customer"
    THEN \A k \in 1..Len(CustomerRecords) :
           /\ RangesFit(CustomerRecords[k].fields, CustomerLineLength)
           /\ RangesDisjoint(CustomerRecords[k].fields)
           /\ CustomerLine(Reverse(CustomerRecords[k].fields))
                = FileLine(downloads[1].content, k, CustomerLineLength)
    ELSE \A o \in 1..Len(JobOutputs) :
           \A k \in 1..Len(JobOutputs[o].jobs) :
             /\ RangesFit(JobOutputs[o].jobs[k].fields, JobLineLength)
             /\ RangesDisjoint(JobOutputs[o].jobs[k].fields)
             /\ (IF kind = "job" THEN JobLine(Reverse(JobOutputs[o].jobs[k].fields))
                 ELSE WipLine(Reverse(JobOutputs[o].jobs[k].fields)))
                  = FileLine(JobOutputs[o].content, k, JobLineLength)

\* a finished job run whose main job fills job_title, the field before the
\* last one, so that its neighbours' ranges matter
C30_Witness ==
  /\ kind = "job" /\ pc = "done" /\ result.success
  /\ Len(mainJobs) > 0
  /\ Len(FieldValue(mainJobs[1].fields, "job_title")) > 0
  /\ Len(FieldValue(mainJobs[1].fields, "unit_price")) > 0

\* a finished customer run that encoded a customer record
C30_CustomerWitness ==
  /\ kind = "customer" /\ pc = "done" /\ result.success
  /\ Len(CustomerRecords) > 0

\* a finished WIP run that encoded a record
C30_WipWitness ==
  /\ kind = "wip" /\ pc = "done" /\ result.success
  /\ Len(mainJobs) > 0

====
